---- MODULE Spec2Model ----
(***************************************************************************)
(* A model of the Collibra -> Cosmos DB graph migration:                   *)
(*   collibrarestassets.py     the asset fetch loop                        *)
(*   collibrarestrelations.py  the generic fetch loop and the relations    *)
(*   cosmosgremlinclient.py    CosmosGraphClient (statements, upsert)      *)
(*   knowgraphcollibra.py      the migration script                        *)
(* The module holds several specifications over one set of variables; a    *)
(* specification leaves the variables of the other parts at their idle     *)
(* values.                                                                 *)
(***************************************************************************)
EXTENDS Integers, Sequences, FiniteSets, Bags, TLC

(***************************************************************************)
(* Bounds of the model.                                                    *)
(***************************************************************************)
\* the largest number of records the catalog holds
MaxTotal == 5
\* the page size of the asset fetch (limit = 100 in the code), scaled down
AssetLimit == 2
\* the page size of the generic fetch (limit = 1000 in the code), scaled down
RelLimit == 3
\* the largest page the server sends for a request that names no limit
MaxServerDefault == 3

\* Python's None, where a string is expected
None == <<"<None>">>
\* a request parameter that is not sent
NoParam == -1
\* a filter parameter that is not sent
NoFilter == <<>>
\* the asset whose relations are fetched
COLLIBRA_ASSET_ID == <<"asset">>

VARIABLES
    \* ---- the fetch loops (collibrarestassets.py, collibrarestrelations.py)
    fetcher,        \* which loop runs: "assets", "relations" or "idle"
    catalog,        \* the number of records the server holds (records 1..catalog)
    serverDefault,  \* the server's page size for a request without a limit
    hasTotal,       \* the server's responses carry a total field
    params,         \* the caller's parameter mapping: [sourceId, offset, limit]
    fpc,            \* "loop", "returned" or "raised"
    all_results,    \* the accumulator (all_results / assets in the code)
    offset,         \* the local offset
    total,          \* the local total
    requests,       \* the requests issued: <<[offset, limit]>>, NoParam when not sent
    failedReq,      \* "none", or the kind of failure that ended the loop
    fetchResult,    \* the list the function returned
    \* ---- the projection of the raw relations (collibrarestrelations.py)
    relations,      \* the raw records get_asset_relations returned
    rel_i,          \* the number of records the for loop has been through
    asset_relationships, \* the list of triples built so far
    ppc,            \* "loop", "returned", or "raised" (KeyError)
    \* ---- statement building (cosmosgremlinclient.py)
    bOp,            \* the statement being built
    bArgs,          \* the arguments of the call
    stmt,           \* the statement text, a sequence of characters
    bpc,            \* "args" before the statement is built, "built" after
    \* ---- CosmosGraphClient and the graph store
    gremlin_client, \* self.gremlin_client is set
    connection,     \* self.connection is set
    g,              \* self.g is set
    opened,         \* the number of times connect() opened a connection
    vertices,       \* the store's vertices, a bag
    edges,          \* the store's edges, a bag
    nextAuto,       \* the number of ids the store has generated
    lastCall,       \* the last client call: [op, ret, none, sent, branch, ok]
    nOps,           \* the number of client calls made
    \* ---- a caller that upserts one key several times
    uArgs,          \* [label, name, value, properties] of the calls
    calls,          \* the calls made: [id_value, branch, ret, none, sent, ok, before]
    racers,         \* concurrent upsert_vertex calls: [pc, id_value, found, seen]
    \* ---- the migration (knowgraphcollibra.py)
    mpc,            \* the position of the script
    raised,         \* "none", or the exception that reached the except clause
    feed,           \* what the run meets: [legacy, assets, assetsRaise, relations,
                    \* relationsRaise]
    all_assets,     \* the list the asset fetch returned
    all_relations,  \* the list the relation fetch returned
    ai,             \* the index of the asset being processed
    ki,             \* the index in Kinds of the nested object being processed
    nested_vertex,  \* domain_vertex / type_vertex / status_vertex
    ri,             \* the index of the relation being processed
    log             \* the client calls the script made, in order

fetchVars == <<fetcher, catalog, serverDefault, hasTotal, params, fpc, all_results, offset, total,
               requests, failedReq, fetchResult>>

projVars == <<relations, rel_i, asset_relationships, ppc>>

buildVars == <<bOp, bArgs, stmt, bpc>>

handleVars == <<gremlin_client, connection, g, opened>>
storeVars == <<vertices, edges, nextAuto>>
clientVars == <<handleVars, storeVars, lastCall, nOps>>

callerVars == <<uArgs, calls, racers>>

mainVars == <<mpc, raised, feed, all_assets, all_relations, ai, ki, nested_vertex, ri,
              log>>

vars == <<fetchVars, projVars, buildVars, clientVars, callerVars, mainVars>>

\* what each part leaves alone
nonFetchVars == <<projVars, buildVars, clientVars, callerVars, mainVars>>
nonBuildVars == <<fetchVars, projVars, clientVars, callerVars, mainVars>>
nonClientVars == <<fetchVars, projVars, buildVars, callerVars, mainVars>>

(***************************************************************************)
(* The catalog server: an offset/limit paginated endpoint that answers     *)
(* {results: [...], total: int}.  A request that names no offset is read   *)
(* from the start; one that names no limit gets the server's default page. *)
(***************************************************************************)
Min(a, b) == IF a < b THEN a ELSE b

CeilDiv(a, b) == (a + b - 1) \div b

ServerPage(req) ==
    LET o == IF req.offset = NoParam THEN 0 ELSE req.offset
        l == IF req.limit = NoParam THEN serverDefault ELSE req.limit
        n == IF o >= catalog THEN 0 ELSE Min(l, catalog - o)
    IN  [results |-> [i \in 1..n |-> o + i], total |-> catalog, hasTotal |-> hasTotal]

\* a response whose missing total is read as more than the page holds
GetTotalOrMore(data) == IF data.hasTotal THEN data.total ELSE Len(data.results) + 1

\* data.get('total', 0)
GetTotal(data) == IF data.hasTotal THEN data.total ELSE 0

BuildIdle == bOp = "idle" /\ bArgs = <<>> /\ stmt = <<>> /\ bpc = "built"

NoCall ==
    [op |-> "none", ret |-> <<>>, none |-> FALSE, sent |-> <<>>, branch |-> "none",
     ok |-> TRUE]

\* CosmosGraphClient.__init__: no handle is set; the store is empty
ClientIdle ==
    /\ gremlin_client = FALSE /\ connection = FALSE /\ g = FALSE /\ opened = 0
    /\ vertices = EmptyBag /\ edges = EmptyBag /\ nextAuto = 0
    /\ lastCall = NoCall /\ nOps = 0

CallerIdle == uArgs = <<>> /\ calls = <<>> /\ racers = <<>>

NoFeed ==
    [legacy |-> 0, assets |-> <<>>, assetsRaise |-> FALSE, relations |-> <<>>,
     relationsRaise |-> FALSE]

MainIdle ==
    /\ mpc = "end" /\ raised = "none" /\ feed = NoFeed
    /\ all_assets = <<>> /\ all_relations = <<>>
    /\ ai = 0 /\ ki = 0 /\ nested_vertex = <<>> /\ ri = 0 /\ log = <<>>

ProjIdle == relations = <<>> /\ rel_i = 0 /\ asset_relationships = <<>> /\ ppc = "returned"

\* no parameter mapping
NoParams == [sourceId |-> NoFilter, offset |-> NoParam, limit |-> NoParam]

\* params = {"sourceId": asset_id} of get_asset_relations
CallerParams == [sourceId |-> COLLIBRA_ASSET_ID, offset |-> NoParam, limit |-> NoParam]

FetchIdle ==
    /\ fetcher = "idle" /\ catalog = 0 /\ serverDefault = 1 /\ hasTotal = TRUE
    /\ params = NoParams
    /\ fpc = "returned"
    /\ all_results = <<>> /\ offset = 0 /\ total = 0 /\ requests = <<>>
    /\ failedReq = "none" /\ fetchResult = <<>>

(***************************************************************************)
(* get_paginated_data: all_results = [], total = 1, offset = 0.            *)
(***************************************************************************)
RelInit ==
    /\ fetcher = "relations"
    /\ params = CallerParams
    /\ catalog \in 0..MaxTotal
    /\ serverDefault \in 1..MaxServerDefault
    /\ fpc = "loop"
    /\ all_results = <<>> /\ offset = 0 /\ total = 1
    /\ requests = <<>> /\ failedReq = "none" /\ fetchResult = <<>>

\* params['offset'] = offset; params['limit'] = limit
SetOffsetLimit == [params EXCEPT !.offset = offset, !.limit = RelLimit]

\* the request of one iteration: params['offset'] and params['limit'] are set,
\* but requests.get is called without params
RelRequest == [sourceId |-> NoFilter, offset |-> NoParam, limit |-> NoParam]

\* one successful iteration of the while loop, and the loop test after it
RelPageOk ==
    /\ fetcher = "relations" /\ fpc = "loop"
    /\ LET data == ServerPage(RelRequest)
           newTotal == IF offset = 0 THEN GetTotal(data) ELSE total
           acc == all_results \o data.results
       IN  /\ requests' = Append(requests, RelRequest)
           /\ total' = newTotal
           /\ all_results' = acc
           /\ offset' = offset + Len(data.results)
           /\ IF Len(acc) < newTotal
                THEN /\ fpc' = "loop" /\ fetchResult' = fetchResult
                ELSE /\ fpc' = "returned" /\ fetchResult' = acc
    /\ params' = SetOffsetLimit
    /\ UNCHANGED <<fetcher, catalog, serverDefault, hasTotal, failedReq>>
    /\ UNCHANGED nonFetchVars

\* an iteration whose request raises RequestException: return []
RelPageFail(kind) ==
    /\ fetcher = "relations" /\ fpc = "loop"
    /\ requests' = Append(requests, RelRequest)
    /\ failedReq' = kind
    /\ fpc' = "returned"
    /\ fetchResult' = <<>>
    /\ params' = SetOffsetLimit
    /\ UNCHANGED <<fetcher, catalog, serverDefault, hasTotal, all_results, offset, total>>
    /\ UNCHANGED nonFetchVars

(***************************************************************************)
(* get_all_collibra_assets_basic_auth: assets = [], offset = 0.            *)
(***************************************************************************)
AssetInit ==
    /\ fetcher = "assets"
    /\ params = NoParams
    /\ catalog \in 0..MaxTotal
    /\ serverDefault \in 1..MaxServerDefault
    /\ fpc = "loop"
    /\ all_results = <<>> /\ offset = 0 /\ total = 0
    /\ requests = <<>> /\ failedReq = "none" /\ fetchResult = <<>>

\* the request of one iteration: offset and limit are part of the URL
AssetRequest == [sourceId |-> NoFilter, offset |-> offset, limit |-> AssetLimit]

AssetPageOk ==
    /\ fetcher = "assets" /\ fpc = "loop"
    /\ LET data == ServerPage(AssetRequest)
           acc == all_results \o data.results
       IN  /\ requests' = Append(requests, AssetRequest)
           /\ total' = GetTotal(data)
           /\ all_results' = acc
           /\ IF Len(acc) >= GetTotal(data)
                THEN /\ fpc' = "returned" /\ fetchResult' = acc
                     /\ offset' = offset
                ELSE /\ fpc' = "loop" /\ fetchResult' = fetchResult
                     /\ offset' = offset + Len(data.results)
    /\ UNCHANGED <<fetcher, catalog, serverDefault, hasTotal, params, failedReq>>
    /\ UNCHANGED nonFetchVars

\* an iteration whose request raises RequestException.  "http" is raised by
\* raise_for_status (response is bound); "transport" is raised by requests.get,
\* and the handler then reads response.text: unbound in the first iteration
\* (UnboundLocalError leaves the function), the previous response afterwards.
AssetPageFail(kind) ==
    /\ fetcher = "assets" /\ fpc = "loop"
    /\ requests' = Append(requests, AssetRequest)
    /\ failedReq' = kind
    /\ IF kind = "transport" /\ requests = <<>>
         THEN /\ fpc' = "raised" /\ fetchResult' = fetchResult
         ELSE /\ fpc' = "returned" /\ fetchResult' = all_results
    /\ UNCHANGED <<fetcher, catalog, serverDefault, hasTotal, params, all_results, offset, total>>
    /\ UNCHANGED nonFetchVars

FailureKinds == {"transport", "http"}

\* the two loops against a server whose responses carry the total
InitFetch ==
    /\ RelInit \/ AssetInit
    /\ hasTotal = TRUE
    /\ ProjIdle /\ BuildIdle /\ ClientIdle /\ CallerIdle /\ MainIdle

\* the two loops against a server whose responses may lack the total
InitFetchAnyTotal ==
    /\ RelInit \/ AssetInit
    /\ hasTotal \in BOOLEAN
    /\ ProjIdle /\ BuildIdle /\ ClientIdle /\ CallerIdle /\ MainIdle

NextFetch ==
    \/ RelPageOk
    \/ \E kind \in FailureKinds : RelPageFail(kind)
    \/ AssetPageOk
    \/ \E kind \in FailureKinds : AssetPageFail(kind)

SpecFetch == InitFetch /\ [][NextFetch]_vars

SpecFetchAnyTotal == InitFetchAnyTotal /\ [][NextFetch]_vars

(***************************************************************************)
(* The two loops against a server that answers every request successfully  *)
(* with a page and a total of its choice: the page may be empty while the   *)
(* total is positive, and the total may be absent.  The requests are not    *)
(* recorded here.  The loop runs in a process that keeps running, so an     *)
(* iteration that can be taken is taken (weak fairness).                    *)
(***************************************************************************)
\* the largest page the server sends
MaxPage == 2

\* a successful response with n records and total t
AnyResponse(n, t, h) ==
    [results |-> [i \in 1..n |-> Len(all_results) + i], total |-> t, hasTotal |-> h]

\* one iteration of the while loop of get_paginated_data, and the loop test
RelPageAny(data) ==
    /\ fetcher = "relations" /\ fpc = "loop"
    /\ LET newTotal == IF offset = 0 THEN GetTotal(data) ELSE total
           acc == all_results \o data.results
       IN  /\ total' = newTotal
           /\ all_results' = acc
           /\ offset' = offset + Len(data.results)
           /\ IF Len(acc) < newTotal
                THEN /\ fpc' = "loop" /\ fetchResult' = fetchResult
                ELSE /\ fpc' = "returned" /\ fetchResult' = acc
    /\ params' = SetOffsetLimit
    /\ UNCHANGED <<fetcher, catalog, serverDefault, hasTotal, requests, failedReq>>
    /\ UNCHANGED nonFetchVars

\* one iteration of the while True loop of the asset fetch
AssetPageAny(data) ==
    /\ fetcher = "assets" /\ fpc = "loop"
    /\ LET acc == all_results \o data.results
       IN  /\ total' = GetTotal(data)
           /\ all_results' = acc
           /\ IF Len(acc) >= GetTotal(data)
                THEN /\ fpc' = "returned" /\ fetchResult' = acc
                     /\ offset' = offset
                ELSE /\ fpc' = "loop" /\ fetchResult' = fetchResult
                     /\ offset' = offset + Len(data.results)
    /\ UNCHANGED <<fetcher, catalog, serverDefault, hasTotal, params, requests, failedReq>>
    /\ UNCHANGED nonFetchVars

InitFetchAnyServer ==
    /\ \/ RelInit
       \/ AssetInit
    /\ catalog = 0 /\ serverDefault = 1 /\ hasTotal = TRUE
    /\ ProjIdle /\ BuildIdle /\ ClientIdle /\ CallerIdle /\ MainIdle

NextFetchAnyServer ==
    \E n \in 0..MaxPage, t \in 0..MaxTotal, h \in BOOLEAN :
        \/ RelPageAny(AnyResponse(n, t, h))
        \/ AssetPageAny(AnyResponse(n, t, h))

SpecFetchAnyServer ==
    InitFetchAnyServer /\ [][NextFetchAnyServer]_vars /\ WF_vars(NextFetchAnyServer)

(***************************************************************************)
(* C29: both fetch loops terminate for every sequence of successful server *)
(* responses, including a response that reports a total greater than the   *)
(* number of records accumulated but returns an empty page, and a first    *)
(* response with a positive total and no results.                          *)
(***************************************************************************)
C29_FetchTerminates == <>(fpc # "loop")

\* an iteration that received an empty page
EmptyPage == all_results' = all_results

\* the loops end when no page is empty while records are missing
FetchTerminatesOrEmptyPage == <>(fpc # "loop") \/ []<><<EmptyPage>>_vars

\* an iteration that receives an empty page while records are missing asks
\* for the same offset again
EmptyPageRepeats == [][(EmptyPage /\ fpc' = "loop") => offset' = offset]_vars

\* a loop received an empty page with a positive total and goes on
EmptyPageReached == fpc = "loop" /\ all_results = <<>> /\ total > 0 /\ offset = 0

\* the limit the running loop asks for
FetchLimit == IF fetcher = "assets" THEN AssetLimit ELSE RelLimit

\* the records 1..n in the server's order
Records(n) == [i \in 1..n |-> i]

(***************************************************************************)
(* C1: for every catalog whose total exceeds the page size, a fetch whose  *)
(* requests all succeed issues exactly ceil(total/limit) requests and      *)
(* returns exactly the total records, in order, none repeated or omitted.  *)
(***************************************************************************)
C1_FetchAllPages ==
    (fpc = "returned" /\ failedReq = "none" /\ catalog > FetchLimit)
        => /\ Len(requests) = CeilDiv(catalog, FetchLimit)
           /\ fetchResult = Records(catalog)

\* the same statement for the asset loop alone, which sends offset and limit
AssetFetchAllPages ==
    (fetcher = "assets" /\ fpc = "returned" /\ failedReq = "none")
        => /\ Len(requests) = IF catalog = 0 THEN 1 ELSE CeilDiv(catalog, AssetLimit)
           /\ fetchResult = Records(catalog)

(***************************************************************************)
(* C7: when a request fails, at any page including the first, the fetch    *)
(* returns exactly the records accumulated from the pages before it,       *)
(* without raising.                                                        *)
(***************************************************************************)
C7_FailureReturnsPartial ==
    failedReq # "none" => (fpc = "returned" /\ fetchResult = all_results)

\* the request an iteration has just issued
LastRequest == requests[Len(requests)]

(***************************************************************************)
(* C17: every request of the fetch carries the caller's filter (sourceId   *)
(* for the relations of an asset), the fixed limit, and an offset equal to *)
(* the number of records accumulated so far, so that offsets strictly      *)
(* increase from one request to the next.                                  *)
(***************************************************************************)
C17_RequestsCarryParams ==
    [][requests' # requests
          => /\ LastRequest'.limit = FetchLimit
             /\ LastRequest'.offset = Len(all_results)
             /\ fetcher = "relations" => LastRequest' = params'
             /\ requests # <<>> => LastRequest'.offset > LastRequest.offset]_vars

\* the same statement for the asset loop alone, which has no filter
AssetRequestsCarryParams ==
    [][(fetcher = "assets" /\ requests' # requests)
          => /\ LastRequest'.limit = AssetLimit
             /\ LastRequest'.offset = Len(all_results)
             /\ requests # <<>> => LastRequest'.offset > LastRequest.offset]_vars

(***************************************************************************)
(* C27: the fetch builds a fresh parameter set for each request, so the    *)
(* parameter mapping the caller passed in is the same after the fetch      *)
(* returns as before the call: no offset or limit key is added to it.      *)
(***************************************************************************)
C27_CallerParamsUnchanged ==
    (fetcher = "relations" /\ fpc = "returned") => params = CallerParams

(***************************************************************************)
(* C18: when the first response has no total field, the fetch stops after  *)
(* that response: it issues exactly one request and returns exactly the    *)
(* records of the first page.                                              *)
(***************************************************************************)
C18_NoTotalOnePage ==
    (~hasTotal /\ requests # <<>> /\ failedReq = "none")
        => /\ fpc = "returned"
           /\ Len(requests) = 1
           /\ fetchResult = ServerPage(requests[1]).results

C18_Witness ==
    /\ ~hasTotal /\ fpc = "returned" /\ failedReq = "none"
    /\ fetcher = "assets" /\ Len(requests) = 1
    /\ fetchResult = Records(AssetLimit) /\ catalog > AssetLimit

(***************************************************************************)
(* Statement building.  A string is a sequence of characters: the quote,   *)
(* the backslash, or a run of ordinary text.  A property value is a record *)
(* [t, v]: its Python type and its str() text.  A property mapping is a    *)
(* sequence of [key, value] entries in mapping order.                      *)
(***************************************************************************)
\* the longest property value string
MaxStrLen == 2
\* the longest label, vertex id or property key
MaxNameLen == 1
\* the largest number of entries of a property mapping
MaxBuildProps == 1

Q == "'"
B == "\\"
Chars == {"a", Q, B}

RECURSIVE StrsUpTo(_)
StrsUpTo(n) ==
    IF n = 0 THEN {<<>>}
    ELSE LET S == StrsUpTo(n - 1) IN S \cup {Append(x, c) : x \in S, c \in Chars}

ID == <<"id">>
LABEL == <<"label">>
\* self.partition_key_field (COSMOSDB_PARTITION_KEY_FIELD, default resourceType)
partition_key_field == <<"resourceType">>

NameStrs == StrsUpTo(MaxNameLen)
KeyStrs == NameStrs \cup {ID, LABEL, partition_key_field}
StrValues == {[t |-> "str", v |-> x] : x \in StrsUpTo(MaxStrLen)}
NonStrValues ==
    {[t |-> "bool", v |-> <<"True">>], [t |-> "bool", v |-> <<"False">>],
     [t |-> "int", v |-> <<"7">>], [t |-> "none", v |-> <<"None">>]}
PropValues == StrValues \cup NonStrValues

RECURSIVE PropLists(_)
PropLists(n) ==
    IF n = 0 THEN {<<>>}
    ELSE LET S == PropLists(n - 1)
         IN  S \cup {Append(ps, [key |-> k, value |-> v]) :
                        ps \in {x \in S : Len(x) = n - 1},
                        k \in KeyStrs, v \in PropValues}

\* the keys of a mapping are distinct
IsMapping(ps) == \A i, j \in 1..Len(ps) : ps[i].key = ps[j].key => i = j

HasKey(ps, k) == \E i \in 1..Len(ps) : ps[i].key = k

\* value.replace("'", "\\'")
RECURSIVE ReplaceQuote(_)
ReplaceQuote(value) ==
    IF value = <<>> THEN <<>>
    ELSE (IF Head(value) = Q THEN <<B, Q>> ELSE <<Head(value)>>)
            \o ReplaceQuote(Tail(value))

_escape_gremlin_string(value) == ReplaceQuote(value)

\* str(value).lower() of a bool
Lower(v) == IF v = <<"True">> THEN <<"true">> ELSE <<"false">>

\* one .property() step of _format_properties
FormatProperty(key, value) ==
    IF value.t = "str"
      THEN <<".property(", Q>> \o key \o <<Q, ", ", Q>> \o ReplaceQuote(value.v)
              \o <<Q, ")">>
    ELSE IF value.t = "bool"
      THEN <<".property(", Q>> \o key \o <<Q, ", ">> \o Lower(value.v) \o <<")">>
    ELSE <<".property(", Q>> \o key \o <<Q, ", ">> \o value.v \o <<")">>

RECURSIVE _format_properties(_)
_format_properties(properties) ==
    IF properties = <<>> THEN <<>>
    ELSE FormatProperty(Head(properties).key, Head(properties).value)
            \o _format_properties(Tail(properties))

\* the query of create_vertex
CreateVertexQuery(label, properties) ==
    <<"g.addV(", Q>> \o label \o <<Q, ")">> \o _format_properties(properties)

\* the query of create_edge
CreateEdgeQuery(from_vertex_id, to_vertex_id, label, properties) ==
    <<"g.V(", Q>> \o from_vertex_id \o <<Q, ")">>
        \o <<".addE(", Q>> \o label \o <<Q, ")">>
        \o <<".to(g.V(", Q>> \o to_vertex_id \o <<Q, "))">>
        \o _format_properties(properties)

\* find_query of _find_vertex
FindQuery(label, unique_property_name, unique_property_value) ==
    LET escaped_label == _escape_gremlin_string(label)
        escaped_prop_name == _escape_gremlin_string(unique_property_name)
        escaped_prop_value == _escape_gremlin_string(unique_property_value)
    IN  <<"g.V().hasLabel(", Q>> \o escaped_label \o <<Q, ")">>
            \o <<".has(", Q>> \o partition_key_field \o <<Q, ", ", Q>>
            \o escaped_label \o <<Q, ")">>
            \o <<".has(", Q>> \o escaped_prop_name \o <<Q, ", ", Q>>
            \o escaped_prop_value \o <<Q, ")">>
            \o <<".limit(1)">>

\* filtered_properties of upsert_vertex: the mapping without 'id' and 'label',
\* the unique property added when the mapping does not hold it
RECURSIVE WithoutIdLabel(_)
WithoutIdLabel(properties) ==
    IF properties = <<>> THEN <<>>
    ELSE (IF Head(properties).key \in {ID, LABEL} THEN <<>> ELSE <<Head(properties)>>)
            \o WithoutIdLabel(Tail(properties))

filtered_properties(properties, unique_property_name, unique_property_value) ==
    LET kept == WithoutIdLabel(properties)
    IN  IF HasKey(kept, unique_property_name) THEN kept
        ELSE Append(kept, [key |-> unique_property_name,
                           value |-> [t |-> "str", v |-> unique_property_value]])

\* an update loop that skips id only
RECURSIVE UpdateAssignedButId(_, _)
UpdateAssignedButId(fprops, unique_property_name) ==
    IF fprops = <<>> THEN <<>>
    ELSE (IF Head(fprops).key = ID THEN <<>> ELSE <<Head(fprops)>>)
            \o UpdateAssignedButId(Tail(fprops), unique_property_name)

\* the entries the update loop assigns (it skips the unique property, the
\* partition key and id)
RECURSIVE UpdateAssigned(_, _)
UpdateAssigned(fprops, unique_property_name) ==
    IF fprops = <<>> THEN <<>>
    ELSE (IF Head(fprops).key \in {unique_property_name, partition_key_field, ID}
            THEN <<>> ELSE <<Head(fprops)>>)
            \o UpdateAssigned(Tail(fprops), unique_property_name)

\* the entries the creation loop assigns (it skips the partition key and id)
RECURSIVE CreateAssigned(_)
CreateAssigned(fprops) ==
    IF fprops = <<>> THEN <<>>
    ELSE (IF Head(fprops).key \in {partition_key_field, ID}
            THEN <<>> ELSE <<Head(fprops)>>)
            \o CreateAssigned(Tail(fprops))

\* one .property() step of upsert_vertex
UpsertProperty(key, value) ==
    LET escaped_key == _escape_gremlin_string(key)
    IN  IF value.t = "str"
          THEN <<".property(", Q>> \o escaped_key \o <<Q, ", ", Q>>
                  \o _escape_gremlin_string(value.v) \o <<Q, ")">>
          ELSE <<".property(", Q>> \o escaped_key \o <<Q, ", ">> \o value.v \o <<")">>

RECURSIVE UpsertProperties(_)
UpsertProperties(ps) ==
    IF ps = <<>> THEN <<>>
    ELSE UpsertProperty(Head(ps).key, Head(ps).value) \o UpsertProperties(Tail(ps))

\* gremlin_query of upsert_vertex when the vertex exists
UpdateQuery(vertex_id, label, unique_property_name, fprops) ==
    LET escaped_vertex_id == _escape_gremlin_string(vertex_id)
        escaped_label == _escape_gremlin_string(label)
    IN  <<"g.V(", Q>> \o escaped_vertex_id \o <<Q, ")">>
            \o <<".has(", Q>> \o partition_key_field \o <<Q, ", ", Q>>
            \o escaped_label \o <<Q, ")">>
            \o UpsertProperties(UpdateAssigned(fprops, unique_property_name))

\* gremlin_query of upsert_vertex when the vertex does not exist
CreationQuery(label, id_value, fprops) ==
    LET escaped_label == _escape_gremlin_string(label)
        escaped_id_value == _escape_gremlin_string(id_value)
    IN  <<"g.addV(", Q>> \o escaped_label \o <<Q, ")">>
            \o <<".property(", Q, "id", Q, ", ", Q>> \o escaped_id_value \o <<Q, ")">>
            \o <<".property(", Q>> \o partition_key_field \o <<Q, ", ", Q>>
            \o escaped_label \o <<Q, ")">>
            \o UpsertProperties(CreateAssigned(fprops))

(***************************************************************************)
(* The statements of the client, built from arguments chosen at the start. *)
(***************************************************************************)
\* the property mappings of at most n entries
Mappings(n) == {ps \in PropLists(n) : IsMapping(ps)}

NoArgs ==
    [label |-> <<>>, from_id |-> <<>>, to_id |-> <<>>, id_value |-> <<>>,
     name |-> <<>>, uvalue |-> <<>>, vertex_id |-> <<>>, props |-> <<>>]

\* upsert_vertex builds a statement only for arguments that pass its validation
NonEmptyNames == NameStrs \ {<<>>}
NonEmptyKeys == KeyStrs \ {<<>>}

InitBuild ==
    /\ FetchIdle /\ ProjIdle /\ ClientIdle /\ CallerIdle /\ MainIdle
    /\ stmt = <<>> /\ bpc = "args"
    /\ \/ /\ bOp = "create_vertex"
          /\ \E l \in NameStrs, ps \in Mappings(MaxBuildProps) :
                bArgs = [NoArgs EXCEPT !.label = l, !.props = ps]
       \/ /\ bOp = "create_edge"
          /\ \E f \in NameStrs, t \in NameStrs, l \in NameStrs, ps \in Mappings(MaxBuildProps) :
                bArgs = [NoArgs EXCEPT !.from_id = f, !.to_id = t, !.label = l,
                                       !.props = ps]
       \/ /\ bOp = "find"
          /\ \E l \in NameStrs, n \in KeyStrs, v \in StrsUpTo(MaxStrLen) :
                bArgs = [NoArgs EXCEPT !.label = l, !.name = n, !.uvalue = v]
       \/ /\ bOp = "upsert_create"
          /\ \E l \in NonEmptyNames, i \in NonEmptyNames, n \in NonEmptyKeys,
                v \in NameStrs, ps \in Mappings(MaxBuildProps) :
                bArgs = [NoArgs EXCEPT !.label = l, !.id_value = i, !.name = n,
                                       !.uvalue = v, !.props = ps]
       \/ /\ bOp = "upsert_update"
          /\ \E l \in NonEmptyNames, i \in NonEmptyNames, n \in NonEmptyKeys,
                v \in NameStrs, ps \in Mappings(MaxBuildProps) :
                bArgs = [NoArgs EXCEPT !.label = l, !.vertex_id = i, !.name = n,
                                       !.uvalue = v, !.props = ps]

Built(text) ==
    /\ bpc = "args"
    /\ stmt' = text
    /\ bpc' = "built"
    /\ UNCHANGED <<bOp, bArgs>>
    /\ UNCHANGED nonBuildVars

BuildCreateVertex ==
    /\ bOp = "create_vertex"
    /\ Built(CreateVertexQuery(bArgs.label, bArgs.props))

BuildCreateEdge ==
    /\ bOp = "create_edge"
    /\ Built(CreateEdgeQuery(bArgs.from_id, bArgs.to_id, bArgs.label, bArgs.props))

BuildFind ==
    /\ bOp = "find"
    /\ Built(FindQuery(bArgs.label, bArgs.name, bArgs.uvalue))

BuildUpsertCreate ==
    /\ bOp = "upsert_create"
    /\ Built(CreationQuery(bArgs.label, bArgs.id_value,
                           filtered_properties(bArgs.props, bArgs.name, bArgs.uvalue)))

BuildUpsertUpdate ==
    /\ bOp = "upsert_update"
    /\ Built(UpdateQuery(bArgs.vertex_id, bArgs.label, bArgs.name,
                         filtered_properties(bArgs.props, bArgs.name, bArgs.uvalue)))

NextBuild ==
    \/ BuildCreateVertex
    \/ BuildCreateEdge
    \/ BuildFind
    \/ BuildUpsertCreate
    \/ BuildUpsertUpdate

SpecBuild == InitBuild /\ [][NextBuild]_vars

(***************************************************************************)
(* Reading a statement back: the quoted literals of a statement, as the    *)
(* store's parser reads them.  Inside a literal a backslash escapes the    *)
(* character after it and a bare quote ends the literal.                   *)
(***************************************************************************)
RECURSIVE LexFrom(_, _, _, _, _)
LexFrom(text, i, inLit, cur, lits) ==
    IF i > Len(text) THEN [ok |-> ~inLit, lits |-> lits]
    ELSE IF ~inLit
      THEN LexFrom(text, i + 1, text[i] = Q, <<>>, lits)
    ELSE IF text[i] = B
      THEN IF i = Len(text) THEN [ok |-> FALSE, lits |-> lits]
           ELSE LexFrom(text, i + 2, TRUE, Append(cur, text[i + 1]), lits)
    ELSE IF text[i] = Q
      THEN LexFrom(text, i + 1, FALSE, <<>>, Append(lits, cur))
    ELSE LexFrom(text, i + 1, TRUE, Append(cur, text[i]), lits)

Literals(text) == LexFrom(text, 1, FALSE, <<>>, <<>>)

\* the literals a mapping contributes: each key, and each string value
RECURSIVE PropLiterals(_)
PropLiterals(ps) ==
    IF ps = <<>> THEN <<>>
    ELSE <<Head(ps).key>>
            \o (IF Head(ps).value.t = "str" THEN <<Head(ps).value.v>> ELSE <<>>)
            \o PropLiterals(Tail(ps))

\* the literals the call is meant to embed, in order
IntendedLiterals ==
    LET fp == filtered_properties(bArgs.props, bArgs.name, bArgs.uvalue)
    IN  CASE bOp = "create_vertex" -> <<bArgs.label>> \o PropLiterals(bArgs.props)
          [] bOp = "create_edge" ->
                <<bArgs.from_id, bArgs.label, bArgs.to_id>> \o PropLiterals(bArgs.props)
          [] bOp = "find" ->
                <<bArgs.label, partition_key_field, bArgs.label, bArgs.name, bArgs.uvalue>>
          [] bOp = "upsert_create" ->
                <<bArgs.label, ID, bArgs.id_value, partition_key_field, bArgs.label>>
                    \o PropLiterals(CreateAssigned(fp))
          [] bOp = "upsert_update" ->
                <<bArgs.vertex_id, partition_key_field, bArgs.label>>
                    \o PropLiterals(UpdateAssigned(fp, bArgs.name))
          [] OTHER -> <<>>

StatementReadsAsIntended ==
    Literals(stmt).ok /\ Literals(stmt).lits = IntendedLiterals

Plain(x) == \A i \in 1..Len(x) : x[i] \notin {Q, B}
NoBackslash(x) == \A i \in 1..Len(x) : x[i] # B
HasQuote(x) == \E i \in 1..Len(x) : x[i] = Q
\* every backslash of x stands immediately before a quote
BackslashOnlyBeforeQuote(x) ==
    \A i \in 1..Len(x) : x[i] = B => (i < Len(x) /\ x[i + 1] = Q)

\* the number of backslashes immediately before position i
RECURSIVE BackslashesBefore(_, _)
BackslashesBefore(text, i) ==
    IF i > 1 /\ text[i - 1] = B THEN 1 + BackslashesBefore(text, i - 1) ELSE 0

\* the property values of the call: the mapping's, and for upsert_vertex the
\* unique property value
StringValuesOfCall ==
    {bArgs.props[i].value.v : i \in {j \in 1..Len(bArgs.props) :
                                        bArgs.props[j].value.t = "str"}}
        \cup (IF bOp \in {"upsert_create", "upsert_update"} THEN {bArgs.uvalue} ELSE {})

\* the other strings of the call
NamesOfCall ==
    {bArgs.label, bArgs.from_id, bArgs.to_id, bArgs.id_value, bArgs.name,
     bArgs.vertex_id}
        \cup {bArgs.props[i].key : i \in 1..Len(bArgs.props)}
        \cup (IF bOp = "find" THEN {bArgs.uvalue} ELSE {})

(***************************************************************************)
(* C5: in every statement built by create_vertex, create_edge and          *)
(* upsert_vertex from property values that contain single quotes (also     *)
(* quotes already preceded by a backslash), each quote is preceded by      *)
(* exactly one escaping backslash and no value ends its own literal.       *)
(***************************************************************************)
C5_ValueQuotesEscapedOnce ==
    (/\ bpc = "built"
     /\ bOp \in {"create_vertex", "create_edge", "upsert_create", "upsert_update"}
     /\ \A x \in NamesOfCall : Plain(x)
     /\ \A x \in StringValuesOfCall : BackslashOnlyBeforeQuote(x)
     /\ \E x \in StringValuesOfCall : HasQuote(x))
        => /\ \A i \in 1..Len(stmt) : stmt[i] = Q => BackslashesBefore(stmt, i) <= 1
           /\ StatementReadsAsIntended

(***************************************************************************)
(* C6: every caller-supplied string other than a property value (labels,   *)
(* vertex ids, property keys, and the label, name and value of the         *)
(* existence lookup) has its single quotes escaped before it is embedded,  *)
(* so the statement reads back with exactly the strings that were passed.  *)
(***************************************************************************)
C6_NamesEscaped ==
    (/\ bpc = "built" /\ bOp # "idle"
     /\ \A x \in NamesOfCall : NoBackslash(x)
     /\ \A x \in StringValuesOfCall : Plain(x))
        => StatementReadsAsIntended

\* the statements of _find_vertex and upsert_vertex do escape those strings
UpsertNamesEscaped ==
    (/\ bpc = "built" /\ bOp \in {"find", "upsert_create", "upsert_update"}
     /\ \A x \in NamesOfCall : NoBackslash(x)
     /\ \A x \in StringValuesOfCall : Plain(x))
        => StatementReadsAsIntended

\* values whose quotes are not preceded by a backslash are escaped correctly
PlainQuotesEscaped ==
    (/\ bpc = "built" /\ bOp # "idle"
     /\ bOp \in {"create_vertex", "create_edge", "upsert_create", "upsert_update"}
     /\ \A x \in NamesOfCall : Plain(x)
     /\ \A x \in StringValuesOfCall : NoBackslash(x))
        => StatementReadsAsIntended

\* the entries of the call's mapping that its statement embeds
EmbeddedOfCall ==
    CASE bOp \in {"create_vertex", "create_edge"} -> bArgs.props
      [] bOp = "upsert_create" ->
            CreateAssigned(filtered_properties(bArgs.props, bArgs.name, bArgs.uvalue))
      [] bOp = "upsert_update" ->
            UpdateAssigned(filtered_properties(bArgs.props, bArgs.name, bArgs.uvalue),
                           bArgs.name)
      [] OTHER -> <<>>

\* the literal text of a value that is not a string: true or false for a
\* boolean, the digits of a number
BareLiteral(value) ==
    CASE value = [t |-> "bool", v |-> <<"True">>] -> <<"true">>
      [] value = [t |-> "bool", v |-> <<"False">>] -> <<"false">>
      [] OTHER -> value.v

Contains(s, sub) == \E i \in 0..(Len(s) - Len(sub)) : SubSeq(s, i + 1, i + Len(sub)) = sub

\* the statement embeds the value bare, between the key's closing quote and
\* the closing parenthesis
EmbedsBare(value) == Contains(stmt, <<Q, ", ">> \o BareLiteral(value) \o <<")">>)

(***************************************************************************)
(* C19: in every statement built by the client, on the create_vertex and   *)
(* create_edge path and on the update and creation paths of upsert_vertex, *)
(* a boolean property value is embedded as the bare literal true or false, *)
(* a number as bare digits, and no value that is not a string is quoted.   *)
(***************************************************************************)
C19_BareLiterals ==
    (/\ bpc = "built"
     /\ bOp \in {"create_vertex", "create_edge", "upsert_create", "upsert_update"})
        => \A k \in 1..Len(EmbeddedOfCall) :
              EmbeddedOfCall[k].value.t # "str" => EmbedsBare(EmbeddedOfCall[k].value)

\* the same statement for create_vertex and create_edge alone
FormatPropertiesBareLiterals ==
    (bpc = "built" /\ bOp \in {"create_vertex", "create_edge"})
        => \A k \in 1..Len(EmbeddedOfCall) :
              EmbeddedOfCall[k].value.t # "str" => EmbedsBare(EmbeddedOfCall[k].value)

\* the same statement for upsert_vertex and values that are not booleans
UpsertBareNumbers ==
    (bpc = "built" /\ bOp \in {"upsert_create", "upsert_update"})
        => \A k \in 1..Len(EmbeddedOfCall) :
              EmbeddedOfCall[k].value.t \in {"int", "none"}
                  => EmbedsBare(EmbeddedOfCall[k].value)

(***************************************************************************)
(* The graph store.  A vertex is [label, props]; props maps each key the   *)
(* model uses to a value or to Absent, and holds the vertex id under 'id'. *)
(* The store generates an id for a vertex created without one.             *)
(***************************************************************************)
EMAIL == <<"email">>
StoreKeys == {ID, partition_key_field, EMAIL}
Absent == [t |-> "absent", v |-> <<>>]
SV(x) == [t |-> "str", v |-> x]

AutoId(n) == <<"g" \o ToString(n)>>

\* the property of a vertex under a key
Prop(v, key) == IF key \in StoreKeys THEN v.props[key] ELSE Absent

\* .property(key, value) steps applied in order
RECURSIVE Assign(_, _)
Assign(props, entries) ==
    IF entries = <<>> THEN props
    ELSE Assign(IF Head(entries).key \in StoreKeys
                  THEN [props EXCEPT ![Head(entries).key] = Head(entries).value]
                  ELSE props,
                Tail(entries))

\* a statement, in the shape the store reads it
Statement(kind) ==
    [kind |-> kind, label |-> <<>>, id |-> <<>>, to |-> <<>>, name |-> <<>>,
     value |-> <<>>, entries |-> <<>>, n |-> 0]

RECURSIVE SumCounts(_, _)
SumCounts(bag, S) ==
    IF S = {} THEN 0
    ELSE LET e == CHOOSE x \in S : TRUE IN bag[e] + SumCounts(bag, S \ {e})

\* the bags made of n elements of bag
RECURSIVE SubBags(_, _)
SubBags(bag, n) ==
    IF n = 0 \/ bag = EmptyBag THEN {EmptyBag}
    ELSE LET e == CHOOSE x \in BagToSet(bag) : TRUE
             rest == [x \in BagToSet(bag) \ {e} |-> bag[x]]
         IN  UNION {{SetToBag({e}) (+) sub : sub \in SubBags(bag (-) SetToBag({e}), n - 1)},
                    IF BagCardinality(rest) >= n THEN SubBags(rest, n) ELSE {}}

\* g.addV(label).property(...)...  The store generates an id when none is
\* given, and refuses a vertex without partition key and an id that a vertex
\* of the same partition already has.
ExecAddV(st, q) ==
    LET given == Assign([k \in StoreKeys |-> Absent], q.entries)
        auto == given[ID] = Absent
        v == [label |-> q.label,
              props |-> IF auto THEN [given EXCEPT ![ID] = SV(AutoId(st.auto + 1))]
                        ELSE given]
        conflict == \E w \in BagToSet(st.V) :
                        /\ w.props[ID] = v.props[ID]
                        /\ w.props[partition_key_field] = v.props[partition_key_field]
    IN  IF conflict \/ given[partition_key_field] = Absent THEN {}
        ELSE {[rows |-> <<v>>,
               st |-> [st EXCEPT !.V = st.V (+) SetToBag({v}),
                                 !.auto = IF auto THEN st.auto + 1 ELSE st.auto]]}

\* g.V().hasLabel(label).has(pk, label).has(name, value).limit(1)
FindMatches(st, q) ==
    {v \in BagToSet(st.V) :
        /\ v.label = q.label
        /\ v.props[partition_key_field] = SV(q.label)
        /\ Prop(v, q.name) = SV(q.value)}

ExecFind(st, q) ==
    IF FindMatches(st, q) = {} THEN {[rows |-> <<>>, st |-> st]}
    ELSE {[rows |-> <<v>>, st |-> st] : v \in FindMatches(st, q)}

\* g.V(id).has(pk, label).property(...)...
ExecUpdate(st, q) ==
    LET hit(v) == v.props[ID] = SV(q.id) /\ v.props[partition_key_field] = SV(q.label)
        upd(v) == IF hit(v) THEN [v EXCEPT !.props = Assign(v.props, q.entries)] ELSE v
        targets == {v \in BagToSet(st.V) : hit(v)}
        D == BagToSet(st.V)
        updated == [x \in {upd(e) : e \in D} |-> SumCounts(st.V, {e \in D : upd(e) = x})]
    IN  IF targets = {} THEN {[rows |-> <<>>, st |-> st]}
        ELSE {[rows |-> <<upd(v)>>, st |-> [st EXCEPT !.V = updated]] :
                v \in targets}

\* g.V(from).addE(label).to(g.V(to)).property(...)...
ExecAddE(st, q) ==
    LET has(i) == \E v \in BagToSet(st.V) : v.props[ID] = SV(i)
        e == [from |-> q.id, to |-> q.to, label |-> q.label, entries |-> q.entries]
    IN  IF has(q.id) /\ has(q.to)
          THEN {[rows |-> <<e>>, st |-> [st EXCEPT !.E = st.E (+) SetToBag({e})]]}
          ELSE {[rows |-> <<>>, st |-> st]}

\* g.V().count()
ExecCount(st, q) == {[rows |-> <<BagCardinality(st.V)>>, st |-> st]}

\* g.V().limit(n).drop(): n vertices go, and the edges at them
ExecDrop(st, q) ==
    LET k == Min(q.n, BagCardinality(st.V))
    IN  {[rows |-> <<>>,
          st |-> [st EXCEPT !.V = st.V (-) gone,
                            !.E = LET left == BagToSet(st.V (-) gone)
                                      ids == {v.props[ID] : v \in left}
                                      keep == {e \in BagToSet(st.E) :
                                                  SV(e.from) \in ids /\ SV(e.to) \in ids}
                                  IN  [e \in keep |-> st.E[e]]]] :
            gone \in SubBags(st.V, k)}

\* the outcomes of a statement the store executes successfully (none when the
\* store has to refuse it)
Exec(st, q) ==
    CASE q.kind = "addV" -> ExecAddV(st, q)
      [] q.kind = "find" -> ExecFind(st, q)
      [] q.kind = "update" -> ExecUpdate(st, q)
      [] q.kind = "addE" -> ExecAddE(st, q)
      [] q.kind = "count" -> ExecCount(st, q)
      [] q.kind = "drop" -> ExecDrop(st, q)

\* a statement submitted to the store: it executes, or the store raises an
\* error and nothing changes
Submit(st, q) ==
    {[ok |-> TRUE, rows |-> o.rows, st |-> o.st] : o \in Exec(st, q)}
        \cup {[ok |-> FALSE, rows |-> <<>>, st |-> st]}

(***************************************************************************)
(* CosmosGraphClient.  A method is an operator from the handles h =        *)
(* [gremlin_client, g] and the store st = [V, E, auto] to the set of its   *)
(* outcomes [ret, none, sent, st, branch, ok]: the value returned (none    *)
(* when it is None), the statements submitted, the store afterwards, the   *)
(* branch taken, and whether every statement executed.                     *)
(***************************************************************************)
\* not x, for a str or None
Falsy(x) == x = None \/ x = <<>>

\* _execute_query without the test of gremlin_client
ExecuteQueryUnguarded(h, st, q) ==
    {[rows |-> o.rows, none |-> FALSE, sent |-> <<q>>, st |-> o.st, ok |-> o.ok] :
        o \in Submit(st, q)}

\* _execute_query that answers None when the store raises
ExecuteQueryNoneOnError(h, st, q) ==
    IF ~h.gremlin_client
      THEN {[rows |-> <<>>, none |-> FALSE, sent |-> <<>>, st |-> st, ok |-> FALSE]}
      ELSE {[rows |-> o.rows, none |-> ~o.ok, sent |-> <<q>>, st |-> o.st, ok |-> o.ok] :
                o \in Submit(st, q)}

\* _execute_query: [] when not connected or when the store raises
_execute_query(h, st, q) ==
    IF ~h.gremlin_client
      THEN {[rows |-> <<>>, none |-> FALSE, sent |-> <<>>, st |-> st, ok |-> FALSE]}
      ELSE {[rows |-> o.rows, none |-> FALSE, sent |-> <<q>>, st |-> o.st, ok |-> o.ok] :
                o \in Submit(st, q)}

\* _execute_gremlin_query: None when the submit raises; with no gremlin_client
\* the attribute access raises before anything is submitted
_execute_gremlin_query(h, st, q) ==
    IF ~h.gremlin_client
      THEN {[rows |-> <<>>, none |-> TRUE, sent |-> <<>>, st |-> st, ok |-> FALSE]}
      ELSE {[rows |-> o.rows, none |-> ~o.ok, sent |-> <<q>>, st |-> o.st, ok |-> o.ok] :
                o \in Submit(st, q)}

create_vertex(h, st, label, properties) ==
    IF ~h.g
      THEN {[ret |-> <<>>, none |-> FALSE, sent |-> <<>>, st |-> st,
             branch |-> "not connected", ok |-> FALSE]}
      ELSE LET query == [Statement("addV") EXCEPT !.label = label,
                                                  !.entries = properties]
           IN  {[ret |-> o.rows, none |-> o.none, sent |-> o.sent, st |-> o.st,
                 branch |-> "create", ok |-> o.ok] :
                    o \in _execute_query(h, st, query)}

create_edge(h, st, from_vertex_id, to_vertex_id, label, properties) ==
    IF ~h.g
      THEN {[ret |-> <<>>, none |-> FALSE, sent |-> <<>>, st |-> st,
             branch |-> "not connected", ok |-> FALSE]}
      ELSE LET query == [Statement("addE") EXCEPT !.id = from_vertex_id,
                                                  !.to = to_vertex_id,
                                                  !.label = label,
                                                  !.entries = properties]
           IN  {[ret |-> o.rows, none |-> o.none, sent |-> o.sent, st |-> o.st,
                 branch |-> "create", ok |-> o.ok] :
                    o \in _execute_query(h, st, query)}

run_query(h, st, query) ==
    {[ret |-> o.rows, none |-> o.none, sent |-> o.sent, st |-> o.st,
      branch |-> "raw", ok |-> o.ok] : o \in _execute_query(h, st, query)}

\* the validation without the test of unique_property_value
MissingUpsertArgsNoValueTest(label, id_value, unique_property_name, unique_property_value) ==
    \/ Falsy(label)
    \/ Falsy(id_value)
    \/ Falsy(unique_property_name)

\* the validation of upsert_vertex
MissingUpsertArgs(label, id_value, unique_property_name, unique_property_value) ==
    \/ Falsy(label)
    \/ Falsy(id_value)
    \/ Falsy(unique_property_name)
    \/ unique_property_value = None

\* _find_vertex: the first result, or nothing
_find_vertex(h, st, label, unique_property_name, unique_property_value) ==
    _execute_gremlin_query(h, st,
        [Statement("find") EXCEPT !.label = label, !.name = unique_property_name,
                                  !.value = unique_property_value])

\* the statement of the update branch
UpdateStatement(vertex_id, label, unique_property_name, fprops) ==
    [Statement("update") EXCEPT !.id = vertex_id, !.label = label,
                                !.entries = UpdateAssigned(fprops, unique_property_name)]

\* the statement of the creation branch
CreationStatement(label, id_value, fprops) ==
    [Statement("addV") EXCEPT
        !.label = label,
        !.entries = <<[key |-> ID, value |-> SV(id_value)],
                      [key |-> partition_key_field, value |-> SV(label)]>>
                        \o CreateAssigned(fprops)]

\* the second half of upsert_vertex: gremlin_query is executed and its first
\* result returned
UpsertWrite(h, found, branch, gremlin_query) ==
    {[ret |-> IF w.rows # <<>> THEN <<w.rows[1]>> ELSE <<>>,
      none |-> w.rows = <<>>,
      sent |-> found.sent \o w.sent,
      st |-> w.st,
      branch |-> branch,
      ok |-> found.ok /\ w.ok] :
        w \in _execute_gremlin_query(h, found.st, gremlin_query)}

\* a lookup result is taken as it comes, with or without id
NoVertexIdNever(vertex_id) == FALSE

\* vertex_id = existing_vertex.get('id'); if not vertex_id:
NoVertexId(vertex_id) == vertex_id = Absent \/ Falsy(vertex_id.v)

\* an upsert_vertex that returns failure when its lookup could not be executed
UpsertAfterFailsClosed(h, found, label, id_value, unique_property_name, unique_property_value, properties) ==
    LET fprops == filtered_properties(properties, unique_property_name,
                                      unique_property_value)
    IN  IF ~found.ok
          THEN {[ret |-> <<>>, none |-> TRUE, sent |-> found.sent, st |-> found.st,
                 branch |-> "lookup failed", ok |-> FALSE]}
          ELSE IF found.rows # <<>>
            THEN UpsertWrite(h, found, "update",
                             UpdateStatement(found.rows[1].props[ID].v, label,
                                             unique_property_name, fprops))
            ELSE UpsertWrite(h, found, "create",
                             CreationStatement(label, id_value, fprops))

\* upsert_vertex after its lookup returned found: the id test, and the update
\* or the creation
UpsertAfter(h, found, label, id_value, unique_property_name, unique_property_value, properties) ==
    LET fprops == filtered_properties(properties, unique_property_name,
                                      unique_property_value)
    IN  IF found.rows # <<>>
          THEN LET vertex_id == found.rows[1].props[ID]
               IN  IF NoVertexId(vertex_id)
                     THEN {[ret |-> <<>>, none |-> TRUE, sent |-> found.sent,
                            st |-> found.st, branch |-> "no id", ok |-> found.ok]}
                     ELSE UpsertWrite(h, found, "update",
                                      UpdateStatement(vertex_id.v, label,
                                                      unique_property_name, fprops))
          ELSE UpsertWrite(h, found, "create",
                           CreationStatement(label, id_value, fprops))

upsert_vertex(h, st, label, id_value, unique_property_name, unique_property_value, properties) ==
    IF MissingUpsertArgs(label, id_value, unique_property_name, unique_property_value)
      THEN {[ret |-> <<>>, none |-> TRUE, sent |-> <<>>, st |-> st,
             branch |-> "invalid", ok |-> TRUE]}
      ELSE UNION {UpsertAfter(h, found, label, id_value, unique_property_name,
                              unique_property_value, properties) :
                    found \in _find_vertex(h, st, label, unique_property_name,
                                           unique_property_value)}

(***************************************************************************)
(* Any sequence of calls on one client, made one after the other.          *)
(***************************************************************************)
\* the largest number of calls made on the client
MaxOps == 3
\* the largest number of entries of a property mapping passed to the client
MaxProps == 1

Str == {<<"a">>, <<"b">>}
ArgStr == Str \cup {None, <<>>}
UniqueNames == {ID, partition_key_field, EMAIL}
ArgNames == UniqueNames \cup {None, <<>>}

RECURSIVE EntryLists(_, _)
EntryLists(keys, n) ==
    IF n = 0 THEN {<<>>}
    ELSE LET S == EntryLists(keys, n - 1)
         IN  S \cup {Append(ps, [key |-> k, value |-> SV(x)]) :
                        ps \in {y \in S : Len(y) = n - 1}, k \in keys, x \in Str}

\* the property mappings passed to upsert_vertex and to create_vertex
UpsertMappings == {ps \in EntryLists(StoreKeys \cup {LABEL}, MaxProps) : IsMapping(ps)}
VertexMappings == {ps \in EntryLists(StoreKeys, MaxProps) : IsMapping(ps)}
EdgeMappings == {<<>>, <<[key |-> <<"since">>, value |-> SV(<<"a">>)]>>}

H == [gremlin_client |-> gremlin_client, g |-> g]
St == [V |-> vertices, E |-> edges, auto |-> nextAuto]

\* the call op ended with outcome o
Called(op, o) ==
    /\ vertices' = o.st.V
    /\ edges' = o.st.E
    /\ nextAuto' = o.st.auto
    /\ lastCall' = [op |-> op, ret |-> o.ret, none |-> o.none, sent |-> o.sent,
                    branch |-> o.branch, ok |-> o.ok]
    /\ nOps' = nOps + 1

NoStatement(branch) ==
    [ret |-> <<>>, none |-> TRUE, sent |-> <<>>, st |-> St, branch |-> branch, ok |-> TRUE]

\* connect() without the test of gremlin_client
ConnectAgain ==
    /\ nOps < MaxOps
    /\ opened' = opened + 1
    /\ \/ /\ gremlin_client' = TRUE /\ connection' = TRUE /\ g' = TRUE
          /\ Called("connect", NoStatement("connected"))
       \/ /\ gremlin_client' = FALSE /\ connection' = FALSE /\ g' = FALSE
          /\ Called("connect", NoStatement("raised"))
    /\ UNCHANGED nonClientVars

\* the statements of connect's try block that can raise: client.Client(...),
\* DriverRemoteConnection(...), traversal().withRemote(...)
ConnectSteps == {"client", "connection", "traversal"}

\* the handles assigned when the step failAt raises
HandlesSetBefore(failAt) ==
    [gremlin_client |-> failAt \in {"connection", "traversal"},
     connection |-> failAt = "traversal",
     g |-> FALSE]

\* except clauses that raise again without resetting the handles
ConnectExceptKeeps(h) == h

\* the except clauses of connect: the three handles are reset
ConnectExcept(h) == [gremlin_client |-> FALSE, connection |-> FALSE, g |-> FALSE]

\* connect(): a no-op when gremlin_client is set; otherwise the three handles
\* are set, or an exception resets them and is raised again
Connect ==
    /\ nOps < MaxOps
    /\ IF gremlin_client
         THEN /\ UNCHANGED handleVars
              /\ Called("connect", NoStatement("already connected"))
         ELSE /\ opened' = opened + 1
              /\ \/ /\ gremlin_client' = TRUE /\ connection' = TRUE /\ g' = TRUE
                    /\ Called("connect", NoStatement("connected"))
                 \/ \E failAt \in ConnectSteps :
                       LET h == ConnectExcept(HandlesSetBefore(failAt))
                       IN  /\ gremlin_client' = h.gremlin_client
                           /\ connection' = h.connection
                           /\ g' = h.g
                           /\ Called("connect", NoStatement("raised"))
    /\ UNCHANGED nonClientVars

\* close() that resets gremlin_client only
CloseClientOnly ==
    /\ nOps < MaxOps
    /\ gremlin_client' = FALSE
    /\ UNCHANGED <<connection, g, opened>>
    /\ Called("close", NoStatement("closed"))
    /\ UNCHANGED nonClientVars

\* close(): each handle that is set is closed (an error of its close() is
\* caught) and reset
Close ==
    /\ nOps < MaxOps
    /\ gremlin_client' = FALSE /\ connection' = FALSE /\ g' = FALSE
    /\ UNCHANGED opened
    /\ \E branch \in (IF gremlin_client \/ connection THEN {"closed", "close error caught"}
                      ELSE {"nothing to close"}) :
          Called("close", NoStatement(branch))
    /\ UNCHANGED nonClientVars

CreateVertex(label, properties) ==
    /\ nOps < MaxOps
    /\ \E o \in create_vertex(H, St, label, properties) : Called("create_vertex", o)
    /\ UNCHANGED handleVars
    /\ UNCHANGED nonClientVars

UpsertVertex(label, id_value, name, value, properties) ==
    /\ nOps < MaxOps
    /\ \E o \in upsert_vertex(H, St, label, id_value, name, value, properties) :
            Called("upsert_vertex", o)
    /\ UNCHANGED handleVars
    /\ UNCHANGED nonClientVars

CreateEdge(from_vertex_id, to_vertex_id, label, properties) ==
    /\ nOps < MaxOps
    /\ \E o \in create_edge(H, St, from_vertex_id, to_vertex_id, label, properties) :
            Called("create_edge", o)
    /\ UNCHANGED handleVars
    /\ UNCHANGED nonClientVars

RunQuery(query) ==
    /\ nOps < MaxOps
    /\ \E o \in run_query(H, St, query) : Called("run_query", o)
    /\ UNCHANGED handleVars
    /\ UNCHANGED nonClientVars

InitClient == FetchIdle /\ ProjIdle /\ BuildIdle /\ ClientIdle /\ CallerIdle /\ MainIdle

NextClient ==
    \/ Connect
    \/ Close
    \/ \E label \in Str, properties \in VertexMappings : CreateVertex(label, properties)
    \/ \E label \in ArgStr, id_value \in ArgStr, name \in ArgNames, value \in ArgStr,
          properties \in UpsertMappings :
            UpsertVertex(label, id_value, name, value, properties)
    \/ \E f \in Str, t \in Str, properties \in EdgeMappings :
            CreateEdge(f, t, <<"relatedTo">>, properties)
    \/ RunQuery(Statement("count"))

SpecClient == InitClient /\ [][NextClient]_vars

\* the number of vertices with the label that hold value under name
Matching(bag, label, name, value) ==
    SumCounts(bag, {v \in BagToSet(bag) : v.label = label /\ v.props[name] = SV(value)})

(***************************************************************************)
(* C2: after any sequence of create_vertex and upsert_vertex calls the     *)
(* store holds at most one vertex for each (label, unique property name,   *)
(* unique property value).                                                 *)
(***************************************************************************)
C2_AtMostOneVertexPerKey ==
    \A label \in Str, name \in UniqueNames, value \in Str \cup {AutoId(1), AutoId(2)} :
        Matching(vertices, label, name, value) <= 1

\* any sequence of connect, close and data operations, the data operations
\* with plain arguments
NextCalls ==
    \/ Connect
    \/ Close
    \/ \E label \in Str :
            CreateVertex(label, <<[key |-> partition_key_field, value |-> SV(label)]>>)
    \/ \E label \in Str, id_value \in Str : UpsertVertex(label, id_value, ID, id_value, <<>>)
    \/ \E f \in Str, t \in Str : CreateEdge(f, t, <<"relatedTo">>, <<>>)
    \/ RunQuery(Statement("count"))

SpecCalls == InitClient /\ [][NextCalls]_vars

DataOps == {"run_query", "create_vertex", "create_edge", "upsert_vertex"}

\* a step that is a call of a client method
IsCall == nOps' = nOps + 1

(***************************************************************************)
(* C11: on a client that is not connected, every data operation            *)
(* (run_query, create_vertex, create_edge, upsert_vertex) returns an empty *)
(* or failure result, raises nothing, submits no statement, and leaves the *)
(* store as it was.                                                        *)
(***************************************************************************)
C11_NotConnectedReturnsEmpty ==
    [][(IsCall /\ lastCall'.op \in DataOps /\ ~gremlin_client)
          => /\ lastCall'.ret = <<>>
             /\ lastCall'.sent = <<>>
             /\ lastCall'.branch # "raised"
             /\ UNCHANGED storeVars]_vars

\* an upsert with valid arguments was made on a client that had been
\* connected and closed, and came back with nothing
C11_Witness ==
    /\ lastCall.op = "upsert_vertex"
    /\ lastCall.branch = "create"
    /\ ~gremlin_client /\ opened = 1
    /\ lastCall.none /\ lastCall.sent = <<>>

(***************************************************************************)
(* C12: connect on a client that is already connected is a no-op: it opens *)
(* no new connection and leaves gremlin_client, connection and g as they   *)
(* were.                                                                   *)
(***************************************************************************)
C12_ConnectWhenConnectedIsNoOp ==
    [][(IsCall /\ lastCall'.op = "connect" /\ gremlin_client)
          => /\ opened' = opened
             /\ gremlin_client' /\ connection' = connection /\ g' = g
             /\ lastCall'.branch = "already connected"
             /\ UNCHANGED storeVars]_vars

\* connect was called on a connected client
C12_Witness ==
    /\ lastCall.op = "connect"
    /\ lastCall.branch = "already connected"
    /\ gremlin_client /\ connection /\ g
    /\ opened = 1 /\ nOps >= 2

Connected == gremlin_client /\ connection /\ g
Disconnected == ~gremlin_client /\ ~connection /\ ~g

(***************************************************************************)
(* C13: over any sequence of connect and close calls the client goes       *)
(* disconnected -> connected -> disconnected: it starts disconnected, a    *)
(* connect that succeeds makes it connected, a connect that fails raises   *)
(* and leaves it disconnected, close always leaves it disconnected (also   *)
(* when closing a handle raises and when it was disconnected), no other    *)
(* call moves it, and it is always in one of the two states.               *)
(***************************************************************************)
C13_Lifecycle ==
    /\ [](Connected \/ Disconnected)
    /\ [](nOps = 0 => Disconnected)
    /\ [][IsCall
            => /\ (lastCall'.op = "connect" /\ Disconnected)
                    => \/ lastCall'.branch = "connected" /\ Connected'
                       \/ lastCall'.branch = "raised" /\ Disconnected'
               /\ lastCall'.op = "close" => Disconnected'
               /\ lastCall'.op \in DataOps => UNCHANGED handleVars]_vars

\* a client that was connected and closed is connected again
C13_Witness ==
    /\ Connected
    /\ opened = 2
    /\ lastCall.op = "connect" /\ lastCall.branch = "connected"

(***************************************************************************)
(* C30: after every completed client operation (the constructor, connect   *)
(* whether it succeeds or raises, close, and every data operation) the     *)
(* three handles agree: gremlin_client, connection and g are all set or    *)
(* all unset, so the guard of create_vertex and create_edge on g and the   *)
(* guard of the execution on gremlin_client never disagree.                *)
(***************************************************************************)
C30_HandlesAgree == gremlin_client = connection /\ connection = g

\* a client that was connected and closed failed to connect again
C30_Witness ==
    /\ lastCall.op = "connect" /\ lastCall.branch = "raised"
    /\ opened = 2
    /\ ~gremlin_client /\ ~connection /\ ~g

(***************************************************************************)
(* C14: run_query, create_vertex and create_edge fail closed: when the     *)
(* store raises an error while executing the statement, the call returns   *)
(* an empty list, no exception reaches the caller, and the store is as it  *)
(* was.                                                                    *)
(***************************************************************************)
C14_ExecuteFailsClosed ==
    [][(/\ IsCall
        /\ lastCall'.op \in {"run_query", "create_vertex", "create_edge"}
        /\ lastCall'.sent # <<>>
        /\ ~lastCall'.ok)
          => /\ lastCall'.ret = <<>>
             /\ ~lastCall'.none
             /\ lastCall'.branch # "raised"
             /\ UNCHANGED storeVars]_vars

\* the store failed the statement of a create_vertex
C14_Witness ==
    /\ lastCall.op = "create_vertex"
    /\ lastCall.sent # <<>>
    /\ ~lastCall.ok
    /\ lastCall.ret = <<>> /\ ~lastCall.none

(***************************************************************************)
(* A caller that upserts one (label, unique property name, unique property *)
(* value) with one property mapping several times in sequence on a         *)
(* connected client, each time with an id_value of its choice.             *)
(***************************************************************************)
\* the largest number of upsert_vertex calls of the caller
MaxCalls == 2

ConnectedEmpty ==
    /\ gremlin_client = TRUE /\ connection = TRUE /\ g = TRUE /\ opened = 1
    /\ vertices = EmptyBag /\ edges = EmptyBag /\ nextAuto = 0
    /\ lastCall = NoCall /\ nOps = 0

\* one upsert_vertex call of the caller, the limit-th at most
UpsertCallUpTo(id_value, limit) ==
    /\ Len(calls) < limit
    /\ \E o \in upsert_vertex(H, St, uArgs.label, id_value, uArgs.name, uArgs.value,
                              uArgs.properties) :
          /\ Called("upsert_vertex", o)
          /\ calls' = Append(calls, [id_value |-> id_value, branch |-> o.branch,
                                     ret |-> o.ret, none |-> o.none, sent |-> o.sent,
                                     ok |-> o.ok, before |-> vertices])
    /\ UNCHANGED <<handleVars, uArgs, racers>>
    /\ UNCHANGED <<fetchVars, projVars, buildVars, mainVars>>

\* calls whose arguments pass the validation
InitUpsert ==
    /\ FetchIdle /\ ProjIdle /\ BuildIdle /\ ConnectedEmpty /\ MainIdle
    /\ uArgs \in [label : Str, name : UniqueNames, value : Str \cup {<<>>},
                  properties : UpsertMappings]
    /\ calls = <<>> /\ racers = <<>>

UpsertCall(id_value) == UpsertCallUpTo(id_value, MaxCalls)

NextUpsert == \E id_value \in Str : UpsertCall(id_value)

SpecUpsert == InitUpsert /\ [][NextUpsert]_vars

\* one call with any arguments, missing ones among them
InitUpsertArgs ==
    /\ FetchIdle /\ ProjIdle /\ BuildIdle /\ ConnectedEmpty /\ MainIdle
    /\ uArgs \in [label : ArgStr, name : ArgNames, value : ArgStr,
                  properties : UpsertMappings]
    /\ calls = <<>> /\ racers = <<>>

UpsertOnce(id_value) == UpsertCallUpTo(id_value, 1)

NextUpsertArgs == \E id_value \in ArgStr : UpsertOnce(id_value)

SpecUpsertArgs == InitUpsertArgs /\ [][NextUpsertArgs]_vars

(***************************************************************************)
(* One upsert_vertex call on a graph that may hold a vertex already: a     *)
(* vertex of the label's partition with or without e-mail, and with an id  *)
(* or, for a corrupted record, without one.                                *)
(***************************************************************************)
StoredVertices ==
    {[label |-> l,
      props |-> [k \in StoreKeys |->
                   CASE k = ID -> i
                     [] k = partition_key_field -> SV(l)
                     [] OTHER -> e]] :
        l \in Str, i \in {SV(x) : x \in Str} \cup {Absent},
        e \in {Absent, SV(<<"a">>)}}

InitUpsertOn ==
    /\ FetchIdle /\ ProjIdle /\ BuildIdle /\ MainIdle
    /\ gremlin_client = TRUE /\ connection = TRUE /\ g = TRUE /\ opened = 1
    /\ vertices \in {EmptyBag} \cup {SetToBag({v}) : v \in StoredVertices}
    /\ edges = EmptyBag /\ nextAuto = 0
    /\ lastCall = NoCall /\ nOps = 0
    /\ uArgs \in [label : Str, name : UniqueNames, value : Str \cup {<<>>},
                  properties : UpsertMappings]
    /\ calls = <<>> /\ racers = <<>>

NextUpsertOn == \E id_value \in Str : UpsertOnce(id_value)

SpecUpsertOn == InitUpsertOn /\ [][NextUpsertOn]_vars

\* the call made, and the vertices the lookup of the call could find
TheCall == calls[1]

Findable ==
    {v \in BagToSet(TheCall.before) :
        /\ v.label = uArgs.label
        /\ v.props[partition_key_field] = SV(uArgs.label)
        /\ Prop(v, uArgs.name) = SV(uArgs.value)}

\* the lookup of the call returned a vertex record (a lookup that fails or
\* returns nothing leads to the creation branch)
LookupFound == TheCall.branch \in {"update", "no id"}

\* the entries of the caller's mapping under keys other than those of S
RECURSIVE EntriesExcept(_, _)
EntriesExcept(ps, S) ==
    IF ps = <<>> THEN <<>>
    ELSE (IF Head(ps).key \in S THEN <<>> ELSE <<Head(ps)>>) \o EntriesExcept(Tail(ps), S)

(***************************************************************************)
(* C24: when the existence lookup finds a vertex, upsert_vertex issues one *)
(* update statement addressed to the found vertex's id that assigns every  *)
(* entry of filtered_properties except the unique property, the partition  *)
(* key and id; the found vertex's id, partition key and unique property    *)
(* value are the same after the update as before, and no vertex is added.  *)
(***************************************************************************)
C24_UpdateFoundVertex ==
    (calls # <<>> /\ TheCall.branch = "update")
        => /\ Len(TheCall.sent) = 2
           /\ TheCall.sent[1].kind = "find"
           /\ TheCall.sent[2].kind = "update"
           /\ \E v \in Findable : v.props[ID] = SV(TheCall.sent[2].id)
           /\ TheCall.sent[2].entries
                 = EntriesExcept(uArgs.properties,
                                 {ID, LABEL, uArgs.name, partition_key_field})
           /\ BagCardinality(vertices) = BagCardinality(TheCall.before)
           /\ \A v \in BagToSet(TheCall.before) :
                 \E w \in BagToSet(vertices) :
                    /\ w.label = v.label
                    /\ w.props[ID] = v.props[ID]
                    /\ w.props[partition_key_field] = v.props[partition_key_field]
                    /\ Prop(w, uArgs.name) = Prop(v, uArgs.name)

\* an update wrote the e-mail of a vertex found by its id
C24_Witness ==
    /\ calls # <<>> /\ TheCall.branch = "update" /\ TheCall.ok
    /\ uArgs.name = ID
    /\ \E v \in BagToSet(TheCall.before) : v.props[EMAIL] = Absent
    /\ \E w \in BagToSet(vertices) : w.props[EMAIL] = SV(<<"b">>)

(***************************************************************************)
(* C25: when the existence lookup finds no vertex, upsert_vertex issues    *)
(* one creation statement that sets id to id_value, the partition key to   *)
(* the label, and every remaining entry of filtered_properties, among them *)
(* the unique property with value unique_property_value, for every choice  *)
(* of unique_property_name including id and the partition key.             *)
(***************************************************************************)
C25_CreationSetsAll ==
    (calls # <<>> /\ TheCall.branch = "create")
        => /\ Len(TheCall.sent) = 2
           /\ TheCall.sent[1].kind = "find"
           /\ TheCall.sent[2].kind = "addV"
           /\ LET set == Assign([k \in StoreKeys |-> Absent], TheCall.sent[2].entries)
               IN  /\ TheCall.sent[2].label = uArgs.label
                   /\ set[ID] = SV(TheCall.id_value)
                   /\ set[partition_key_field] = SV(uArgs.label)
                   /\ set[uArgs.name] = SV(uArgs.value)
                   /\ \A i \in DOMAIN uArgs.properties :
                         uArgs.properties[i].key
                                \in StoreKeys \ {ID, partition_key_field, uArgs.name}
                            => set[uArgs.properties[i].key] = uArgs.properties[i].value

\* the same for a unique property other than id and the partition key that
\* the caller's mapping does not hold under another value
CreationSetsAllUnlessOverridden ==
    (/\ calls # <<>> /\ TheCall.branch = "create"
     /\ uArgs.name \notin {ID, partition_key_field}
     /\ \A i \in DOMAIN uArgs.properties :
           uArgs.properties[i].key = uArgs.name
              => uArgs.properties[i].value = SV(uArgs.value))
        => /\ Len(TheCall.sent) = 2
           /\ TheCall.sent[2].kind = "addV"
           /\ LET set == Assign([k \in StoreKeys |-> Absent], TheCall.sent[2].entries)
               IN  /\ TheCall.sent[2].label = uArgs.label
                   /\ set[ID] = SV(TheCall.id_value)
                   /\ set[partition_key_field] = SV(uArgs.label)
                   /\ set[uArgs.name] = SV(uArgs.value)
                   /\ \A i \in DOMAIN uArgs.properties :
                         uArgs.properties[i].key
                                \in StoreKeys \ {ID, partition_key_field, uArgs.name}
                            => set[uArgs.properties[i].key] = uArgs.properties[i].value

(***************************************************************************)
(* C26: when the existence lookup returns a vertex record that has no id,  *)
(* upsert_vertex returns failure and issues no update and no creation      *)
(* statement, leaving the store unchanged.                                 *)
(***************************************************************************)
C26_NoIdFails ==
    (/\ calls # <<>> /\ LookupFound
     /\ Findable # {} /\ \A v \in Findable : v.props[ID] = Absent)
        => /\ TheCall.none /\ TheCall.ret = <<>>
           /\ Len(TheCall.sent) = 1
           /\ vertices = TheCall.before

C26_Witness ==
    /\ calls # <<>> /\ TheCall.branch = "no id" /\ TheCall.ok
    /\ Findable # {} /\ TheCall.none
    /\ vertices = TheCall.before /\ BagCardinality(vertices) = 1

\* every statement of every call so far executed
\* a client that is not connected
NotConnected == [gremlin_client |-> FALSE, g |-> FALSE]

\* the outcomes without the mark of the store's failures
Unmarked(outcomes) == {[o EXCEPT !.ok = TRUE] : o \in outcomes}

(***************************************************************************)
(* C32: upsert_vertex treats an existence lookup whose execution fails     *)
(* (the store raises, or the client is not connected) exactly like a       *)
(* lookup that found no match: it takes the creation branch and, on a      *)
(* connected client, submits a creation statement instead of returning     *)
(* failure; when that statement executes, a vertex is added to the graph,  *)
(* also when a vertex for the key was there already.                       *)
(***************************************************************************)
C32_FailedLookupCreates ==
    /\ (uArgs # <<>> /\ calls = <<>>)
          => \A h \in {H, NotConnected}, id_value \in Str :
                \A found \in _find_vertex(h, St, uArgs.label, uArgs.name, uArgs.value) :
                   ~found.ok
                     => LET outs == UpsertAfter(h, found, uArgs.label, id_value,
                                                uArgs.name, uArgs.value, uArgs.properties)
                            noMatch == UpsertAfter(h, [found EXCEPT !.ok = TRUE],
                                                   uArgs.label, id_value, uArgs.name,
                                                   uArgs.value, uArgs.properties)
                        IN  /\ found.rows = <<>>
                            /\ Unmarked(outs) = Unmarked(noMatch)
                            /\ \A o \in outs :
                                  /\ o.branch = "create"
                                  /\ h.gremlin_client
                                        => /\ Len(o.sent) = 2
                                           /\ o.sent[2].kind = "addV"
    /\ (/\ calls # <<>> /\ Findable # {}
        /\ TheCall.branch = "create" /\ TheCall.ret # <<>>)
          => /\ ~TheCall.ok
             /\ BagCardinality(vertices) = BagCardinality(TheCall.before) + 1

\* the vertices of the graph that carry the key of the call
KeyVertices ==
    {v \in BagToSet(vertices) :
        /\ v.label = uArgs.label
        /\ v.props[partition_key_field] = SV(uArgs.label)
        /\ Prop(v, uArgs.name) = SV(uArgs.value)}

\* the lookup of a key that had a vertex failed, and the graph has two
\* vertices for the key
C32_Witness ==
    /\ calls # <<>> /\ Findable # {}
    /\ TheCall.branch = "create" /\ TheCall.ret # <<>>
    /\ Cardinality(KeyVertices) = 2

AllExecuted == \A i \in 1..Len(calls) : calls[i].ok

(***************************************************************************)
(* C3: two upsert_vertex calls in sequence with the same (label, unique    *)
(* property name, unique property value), every statement executing, leave *)
(* exactly one matching vertex: the first call creates it, the second      *)
(* finds it and updates it.                                                *)
(***************************************************************************)
C3_SecondUpsertUpdates ==
    (Len(calls) = 2 /\ AllExecuted)
        => /\ calls[1].branch = "create"
           /\ calls[2].branch = "update"
           /\ Matching(vertices, uArgs.label, uArgs.name, uArgs.value) = 1

\* the same when the creation statement stores the unique property with the
\* value that is looked up
SecondUpsertUpdatesWhenKeyStored ==
    (/\ Len(calls) = 2 /\ AllExecuted
     /\ calls[1].ret # <<>>
     /\ calls[1].ret[1].props[uArgs.name] = SV(uArgs.value))
        => /\ calls[1].branch = "create"
           /\ calls[2].branch = "update"
           /\ Matching(vertices, uArgs.label, uArgs.name, uArgs.value) = 1

(***************************************************************************)
(* C4 as stated: upsert_vertex called with any of label, id_value,         *)
(* unique_property_name or unique_property_value null or empty returns     *)
(* None and submits no statement.                                          *)
(***************************************************************************)
C4_MissingArgumentRejected ==
    \A i \in 1..Len(calls) :
        (\/ uArgs.label \in {None, <<>>}
         \/ calls[i].id_value \in {None, <<>>}
         \/ uArgs.name \in {None, <<>>}
         \/ uArgs.value \in {None, <<>>})
            => (calls[i].none /\ calls[i].sent = <<>> /\ vertices = calls[i].before)

(***************************************************************************)
(* C4 as amended: upsert_vertex called with label, id_value or             *)
(* unique_property_name null or empty, or with unique_property_value null, *)
(* returns None and submits no statement; an empty unique_property_value   *)
(* passes the validation.                                                  *)
(***************************************************************************)
C4_MissingArgumentRejectedAmended ==
    \A i \in 1..Len(calls) :
        (\/ uArgs.label \in {None, <<>>}
         \/ calls[i].id_value \in {None, <<>>}
         \/ uArgs.name \in {None, <<>>}
         \/ uArgs.value = None)
            => (calls[i].none /\ calls[i].sent = <<>> /\ vertices = calls[i].before)

\* a call without unique_property_value was made and rejected
C4_Witness ==
    /\ Len(calls) = 1
    /\ uArgs.value = None
    /\ uArgs.label \in Str /\ uArgs.name \in UniqueNames /\ calls[1].id_value \in Str
    /\ calls[1].none /\ calls[1].sent = <<>>

(***************************************************************************)
(* The migration script (knowgraphcollibra.py): connect, drain the graph,  *)
(* fetch the assets and write a vertex for each with its nested domain,    *)
(* type and status, fetch the relations and write an edge for each, close. *)
(* One action is one client call of the script with what the script does   *)
(* with its result.  An asset is [id, resourceType, createdOn, domain,     *)
(* type, status]; of the thirteen keys the script copies, the model keeps  *)
(* id, createdOn and resourceType.  A nested object is [present, id,       *)
(* resourceType].  A key that a dictionary does not hold is NoKey.         *)
(***************************************************************************)
\* the batch size of the drain loop
drop_limit == 10

\* the largest number of statements the store fails in one run
MaxFailures == 1

Kinds == <<"domain", "type", "status">>
NoKey == <<"<no key>">>

\* dict.get(key, default)
Get(dict, key, default) == IF dict[key] = NoKey THEN default ELSE dict[key]

asset_keys_to_extract == <<"id", "createdOn", "resourceType">>
nested_keys_to_extract == <<"id", "resourceType">>

\* the loop over keys_to_extract: the entries of the keys that dict holds
RECURSIVE Extract(_, _)
Extract(dict, keys) ==
    IF keys = <<>> THEN <<>>
    ELSE (IF dict[Head(keys)] = NoKey THEN <<>>
          ELSE <<[key |-> <<Head(keys)>>, value |-> SV(dict[Head(keys)])]>>)
            \o Extract(dict, Tail(keys))

\* the label of a nested vertex whose object has no resourceType
DefaultLabel(kind) ==
    CASE kind = "domain" -> <<"Domain">>
      [] kind = "type" -> <<"Type">>
      [] kind = "status" -> <<"Status">>

EdgeLabel(kind) == <<"belongsTo_" \o kind>>

\* the record of one client call in log
Entry(op) ==
    [op |-> op, asset |-> 0, kind |-> "", rel |-> 0, label |-> <<>>, id |-> <<>>,
     from |-> <<>>, to |-> <<>>, properties |-> <<>>, observed |-> -1,
     none |-> FALSE, ok |-> TRUE]

(***************************************************************************)
(* Two callers that upsert the same (label, unique property name, unique   *)
(* property value) at the same time on one connected client, each with an  *)
(* id_value of its own.  upsert_vertex holds no lock and makes two round    *)
(* trips to the store, the lookup and the write, so the steps of the two    *)
(* calls come in any order.                                                 *)
(***************************************************************************)
Racers == 1..2

NoFound == [rows |-> <<>>, none |-> TRUE, sent |-> <<>>, ok |-> TRUE]

InitRace ==
    /\ FetchIdle /\ ProjIdle /\ BuildIdle /\ ConnectedEmpty /\ MainIdle
    /\ uArgs \in [label : Str, name : UniqueNames, value : Str \cup {<<>>},
                  properties : UpsertMappings]
    /\ calls = <<>>
    /\ racers \in [Racers -> [pc : {"lookup"}, id_value : Str, found : {NoFound},
                              seen : {0}]]

\* existing_vertex = self._find_vertex(...) of caller p
RaceLookup(p) ==
    /\ racers[p].pc = "lookup"
    /\ \E found \in _find_vertex(H, St, uArgs.label, uArgs.name, uArgs.value) :
          racers' = [racers EXCEPT ![p] =
                        [pc |-> "write", id_value |-> racers[p].id_value,
                         found |-> [rows |-> found.rows, none |-> found.none,
                                    sent |-> found.sent, ok |-> found.ok],
                         seen |-> Len(calls)]]
    /\ UNCHANGED <<clientVars, uArgs, calls>>
    /\ UNCHANGED <<fetchVars, projVars, buildVars, mainVars>>

\* the rest of the call of caller p, on the store as it is by then
RaceWrite(p) ==
    /\ racers[p].pc = "write"
    /\ LET f == racers[p].found
           found == [rows |-> f.rows, none |-> f.none, sent |-> f.sent, st |-> St,
                     ok |-> f.ok]
       IN  \E o \in UpsertAfter(H, found, uArgs.label, racers[p].id_value, uArgs.name,
                                 uArgs.value, uArgs.properties) :
              /\ Called("upsert_vertex", o)
              /\ calls' = Append(calls, [id_value |-> racers[p].id_value,
                                         branch |-> o.branch, ret |-> o.ret,
                                         none |-> o.none, sent |-> o.sent,
                                         ok |-> o.ok, before |-> vertices])
    /\ racers' = [racers EXCEPT ![p].pc = "done"]
    /\ UNCHANGED <<handleVars, uArgs>>
    /\ UNCHANGED <<fetchVars, projVars, buildVars, mainVars>>

NextRace == \E p \in Racers : RaceLookup(p) \/ RaceWrite(p)

SpecRace == InitRace /\ [][NextRace]_vars

RaceOver == racers # <<>> /\ \A p \in Racers : racers[p].pc = "done"

\* both lookups ran before either write
Interleaved == \A p \in Racers : racers[p].seen = 0

\* one call ended before the lookup of the other
Serialized == \E p \in Racers : racers[p].seen = 1

(***************************************************************************)
(* C28: two upsert_vertex calls on the same (label, unique value) whose     *)
(* lookup and write steps interleave, both lookups running before either    *)
(* write, both take the creation branch and leave two vertices for that    *)
(* key, whereas any serialized execution of the same two calls leaves       *)
(* exactly one (the store executing every statement).                       *)
(***************************************************************************)
C28_RaceDuplicatesSerialDoesNot ==
    (RaceOver /\ AllExecuted)
        => /\ Interleaved
                => /\ \A i \in 1..2 : calls[i].branch = "create"
                   /\ BagCardinality(vertices) = 2
           /\ Serialized => BagCardinality(vertices) = 1

\* the interleaved half alone: both calls create, and two vertices are left
InterleavedUpsertsCreateTwice ==
    (RaceOver /\ AllExecuted /\ Interleaved)
        => /\ \A i \in 1..2 : calls[i].branch = "create"
           /\ BagCardinality(vertices) = 2

\* the serialized half where the vertex of the first call carries the unique
\* value under the unique property name, so that the second lookup finds it
SerializedUpsertsKeepOne ==
    (/\ RaceOver /\ AllExecuted /\ Serialized
     /\ calls[1].ret # <<>>
     /\ calls[1].ret[1].props[uArgs.name] = SV(uArgs.value))
        => /\ calls[2].branch = "update"
           /\ BagCardinality(vertices) = 1

\* an interleaved race was run to its end with every statement executed
InterleavedRaceReached == RaceOver /\ AllExecuted /\ Interleaved

\* two callers with one id_value: the store refuses the second creation
InterleavedSameIdKeepsOne ==
    (/\ RaceOver /\ Interleaved
     /\ racers[1].id_value = racers[2].id_value)
        => BagCardinality(vertices) <= 1

\* the calls so far in which the store failed a statement
Failures == Cardinality({i \in DOMAIN log : ~log[i].ok})

\* the outcomes that can happen now: the store fails MaxFailures statements of
\* a run at most, and beyond that a statement it cannot execute
Possible(outcomes) ==
    {o \in outcomes : o.ok \/ Failures < MaxFailures \/ \A x \in outcomes : ~x.ok}

Applied(o) ==
    /\ vertices' = o.st.V
    /\ edges' = o.st.E
    /\ nextAuto' = o.st.auto

\* an exception leaves the try block
Abort(exc) == mpc' = "finally" /\ raised' = exc

nonMainVars == <<fetchVars, projVars, buildVars, callerVars, lastCall, nOps>>

\* client.connect(): the handles are set, or the exception is raised again
MainConnect ==
    /\ mpc = "connect"
    /\ opened' = opened + 1
    /\ \/ /\ gremlin_client' = TRUE /\ connection' = TRUE /\ g' = TRUE
          /\ mpc' = "count" /\ UNCHANGED raised
       \/ /\ gremlin_client' = FALSE /\ connection' = FALSE /\ g' = FALSE
          /\ Abort("ConnectionError")
    /\ UNCHANGED <<storeVars, feed, all_assets, all_relations, ai, ki, nested_vertex,
                   ri, log>>
    /\ UNCHANGED nonMainVars

\* where the drain loop goes after a count
DrainNextStopsEarly(remaining) ==
    IF remaining <= drop_limit THEN "fetch_assets" ELSE "drop"

\* a script without the drain loop
DrainNextNever(remaining) == "fetch_assets"

\* a drain loop that stops when less than a batch is left
DrainNextUnlessFull(remaining) == IF remaining < drop_limit THEN "fetch_assets" ELSE "drop"

DrainNext(remaining) == IF remaining = 0 THEN "fetch_assets" ELSE "drop"

\* remaining = client.run_query("g.V().count()")[0]
DrainCount ==
    /\ mpc = "count"
    /\ \E o \in Possible(run_query(H, St, Statement("count"))) :
          /\ Applied(o)
          /\ log' = Append(log, [Entry("count") EXCEPT
                                    !.observed = IF o.ret = <<>> THEN -1 ELSE o.ret[1],
                                    !.none = (o.ret = <<>>),
                                    !.ok = o.ok])
          /\ IF o.ret = <<>>
               THEN Abort("IndexError")
               ELSE mpc' = DrainNext(o.ret[1]) /\ UNCHANGED raised
    /\ UNCHANGED <<handleVars, feed, all_assets, all_relations, ai, ki, nested_vertex, ri>>
    /\ UNCHANGED nonMainVars

\* a loop that is left after its first delete
AfterDropLeaves == "fetch_assets"

\* while True: the delete is followed by the next count, whatever it returned
AfterDrop == "count"

\* client.run_query(f"g.V().limit({drop_limit}).drop()")
DrainDrop ==
    /\ mpc = "drop"
    /\ \E o \in Possible(run_query(H, St, [Statement("drop") EXCEPT !.n = drop_limit])) :
          /\ Applied(o)
          /\ log' = Append(log, [Entry("drop") EXCEPT !.none = (o.ret = <<>>),
                                                      !.ok = o.ok])
    /\ mpc' = AfterDrop
    /\ UNCHANGED <<handleVars, raised, feed, all_assets, all_relations, ai, ki,
                   nested_vertex, ri>>
    /\ UNCHANGED nonMainVars

\* all_assets = get_all_collibra_assets_basic_auth()
FetchAssets ==
    /\ mpc = "fetch_assets"
    /\ IF feed.assetsRaise
         THEN /\ Abort("UnboundLocalError")
              /\ UNCHANGED <<all_assets, ai>>
         ELSE /\ all_assets' = feed.assets
              /\ mpc' = IF feed.assets = <<>> THEN "fetch_relations" ELSE "asset"
              /\ ai' = IF feed.assets = <<>> THEN 0 ELSE 1
              /\ UNCHANGED raised
    /\ UNCHANGED <<handleVars, storeVars, feed, all_relations, ki, nested_vertex, ri, log>>
    /\ UNCHANGED nonMainVars

\* the first nested object of asset i at or after kind k, 0 when there is none
NextKind(i, k) ==
    LET S == {j \in k..Len(Kinds) : all_assets[i][Kinds[j]].present}
    IN  IF S = {} THEN 0 ELSE CHOOSE j \in S : \A x \in S : j <= x

\* the script goes on with asset i from kind k
Continue(i, k) ==
    IF NextKind(i, k) # 0
      THEN mpc' = "nested" /\ ai' = i /\ ki' = NextKind(i, k)
      ELSE IF i < Len(all_assets)
             THEN mpc' = "asset" /\ ai' = i + 1 /\ ki' = 0
             ELSE mpc' = "fetch_relations" /\ ai' = i /\ ki' = 0

\* asset_vertex = client.create_vertex(label=..., properties=asset_data)
AssetVertex ==
    /\ mpc = "asset"
    /\ LET asset == all_assets[ai]
           label == Get(asset, "resourceType", <<"Asset">>)
           asset_data == Extract(asset, asset_keys_to_extract)
       IN  \E o \in Possible(create_vertex(H, St, label, asset_data)) :
              /\ Applied(o)
              /\ log' = Append(log, [Entry("create_vertex") EXCEPT
                                        !.asset = ai, !.label = label,
                                        !.properties = asset_data,
                                        !.none = (o.ret = <<>>), !.ok = o.ok])
    /\ Continue(ai, 1)
    /\ UNCHANGED <<handleVars, raised, feed, all_assets, all_relations, nested_vertex, ri>>
    /\ UNCHANGED nonMainVars

\* domain_vertex = client.upsert_vertex(...) and the print that follows it,
\* which reads asset['id'] and domain_vertex['id']
NestedUpsert ==
    /\ mpc = "nested"
    /\ LET asset == all_assets[ai]
           kind == Kinds[ki]
           nested == asset[kind]
           nested_data == Extract(nested, nested_keys_to_extract)
           label == Get(nested, "resourceType", DefaultLabel(kind))
           id == Get(nested, "id", None)
       IN  \E o \in Possible(upsert_vertex(H, St, label, id, ID, id, nested_data)) :
              /\ Applied(o)
              /\ log' = Append(log, [Entry("upsert_vertex") EXCEPT
                                        !.asset = ai, !.kind = kind, !.label = label,
                                        !.id = id, !.properties = nested_data,
                                        !.none = o.none, !.ok = o.ok])
              /\ nested_vertex' = o.ret
              /\ IF asset.id = NoKey THEN Abort("KeyError")
                 ELSE IF o.none THEN Abort("TypeError")
                 ELSE mpc' = "edge" /\ UNCHANGED raised
    /\ UNCHANGED <<handleVars, feed, all_assets, all_relations, ai, ki, ri>>
    /\ UNCHANGED nonMainVars

\* an edge that starts at the asset
EdgeSourceIsAsset(vertex) == all_assets[ai].id

\* domain_vertex['id']
EdgeSource(vertex) == vertex[1].props[ID].v

\* domain_edge = client.create_edge(from_vertex_id=domain_vertex['id'], ...)
NestedEdge ==
    /\ mpc = "edge"
    /\ LET asset == all_assets[ai]
           kind == Kinds[ki]
           from == EdgeSource(nested_vertex)
           properties == <<[key |-> <<"since">>,
                            value |-> SV(Get(asset, "createdOn", <<"unknown">>))]>>
       IN  \E o \in Possible(create_edge(H, St, from, asset.id, EdgeLabel(kind), properties)) :
              /\ Applied(o)
              /\ log' = Append(log, [Entry("create_edge") EXCEPT
                                        !.asset = ai, !.kind = kind,
                                        !.label = EdgeLabel(kind), !.from = from,
                                        !.to = asset.id, !.properties = properties,
                                        !.none = (o.ret = <<>>), !.ok = o.ok])
    /\ Continue(ai, ki + 1)
    /\ UNCHANGED <<handleVars, raised, feed, all_assets, all_relations, nested_vertex, ri>>
    /\ UNCHANGED nonMainVars

\* all_relations = get_all_collibra_relations(); if all_relations: ...
FetchRelations ==
    /\ mpc = "fetch_relations"
    /\ IF feed.relationsRaise
         THEN /\ Abort("KeyError")
              /\ UNCHANGED <<all_relations, ri>>
         ELSE /\ all_relations' = feed.relations
              /\ mpc' = IF feed.relations = <<>> THEN "finally" ELSE "relation"
              /\ ri' = IF feed.relations = <<>> THEN 0 ELSE 1
              /\ UNCHANGED raised
    /\ UNCHANGED <<handleVars, storeVars, feed, all_assets, ai, ki, nested_vertex, log>>
    /\ UNCHANGED nonMainVars

\* an edge is written for any source id
HasSourceEnd(rel) == ~Falsy(rel.source_id)

\* if source_id and target_id:
HasBothEnds(rel) == ~Falsy(rel.source_id) /\ ~Falsy(rel.target_id)

\* one round of the loop over all_relations
RelationEdge ==
    /\ mpc = "relation"
    /\ LET rel == all_relations[ri]
           properties == <<[key |-> <<"relationTypeId">>,
                            value |-> SV(rel.relation_type_id)]>>
       IN  IF HasBothEnds(rel)
             THEN \E o \in Possible(create_edge(H, St, rel.source_id, rel.target_id,
                                       <<"relatedTo">>, properties)) :
                     /\ Applied(o)
                     /\ log' = Append(log, [Entry("create_edge") EXCEPT
                                               !.rel = ri, !.label = <<"relatedTo">>,
                                               !.from = rel.source_id,
                                               !.to = rel.target_id,
                                               !.properties = properties,
                                               !.none = (o.ret = <<>>), !.ok = o.ok])
             ELSE UNCHANGED <<storeVars, log>>
    /\ IF ri < Len(all_relations)
         THEN ri' = ri + 1 /\ UNCHANGED mpc
         ELSE mpc' = "finally" /\ UNCHANGED ri
    /\ UNCHANGED <<handleVars, raised, feed, all_assets, all_relations, ai, ki,
                   nested_vertex>>
    /\ UNCHANGED nonMainVars

\* a script whose finally clause does not close the client
FinallySkipsClose ==
    /\ mpc = "finally"
    /\ mpc' = "end"
    /\ UNCHANGED <<handleVars, storeVars, raised, feed, all_assets, all_relations, ai, ki,
                   nested_vertex, ri, log>>
    /\ UNCHANGED nonMainVars

\* finally: if client: client.close()
Finally ==
    /\ mpc = "finally"
    /\ gremlin_client' = FALSE /\ connection' = FALSE /\ g' = FALSE
    /\ UNCHANGED opened
    /\ mpc' = "end"
    /\ UNCHANGED <<storeVars, raised, feed, all_assets, all_relations, ai, ki,
                   nested_vertex, ri, log>>
    /\ UNCHANGED nonMainVars

NextMain ==
    \/ MainConnect
    \/ DrainCount
    \/ DrainDrop
    \/ FetchAssets
    \/ AssetVertex
    \/ NestedUpsert
    \/ NestedEdge
    \/ FetchRelations
    \/ RelationEdge
    \/ Finally

(***************************************************************************)
(* What a run meets: the vertices an earlier run left in the graph, and    *)
(* what the two fetches return.                                            *)
(***************************************************************************)
\* the largest number of vertices in the graph when the script starts
MaxVertices == 12
\* the largest number of assets and of relations a fetch returns
MaxAssets == 2
MaxRelations == 2

LegacyVertex(i) ==
    [label |-> <<"Old">>,
     props |-> [k \in StoreKeys |->
                  CASE k = ID -> SV(<<"v" \o ToString(i)>>)
                    [] k = partition_key_field -> SV(<<"Old">>)
                    [] OTHER -> Absent]]

Legacy(n) == SetToBag({LegacyVertex(i) : i \in 1..n})

NoNested == [present |-> FALSE, id |-> NoKey, resourceType |-> NoKey]
Nested(id, resourceType) == [present |-> TRUE, id |-> id, resourceType |-> resourceType]

AssetId(i) == <<"A" \o ToString(i)>>

DomainShapes ==
    {NoNested, Nested(<<"D1">>, <<"Domain">>), Nested(NoKey, <<"Domain">>),
     Nested(<<"D1">>, NoKey)}
TypeShapes == {NoNested, Nested(<<"T1">>, <<"AssetType">>)}
StatusShapes == {NoNested, Nested(<<"S1">>, <<"Status">>)}

\* an asset with its fields and just a domain
PlainAsset(i) ==
    [id |-> AssetId(i), resourceType |-> <<"Table">>, createdOn |-> <<"2024">>,
     domain |-> Nested(<<"D1">>, <<"Domain">>), type |-> NoNested, status |-> NoNested]

\* the assets the catalog can return as the i-th
AssetShapes(i) ==
    {[PlainAsset(i) EXCEPT !.createdOn = c, !.domain = d, !.type = t, !.status = s] :
        c \in {<<"2024">>, NoKey}, d \in DomainShapes, t \in TypeShapes,
        s \in StatusShapes}
      \cup {[PlainAsset(i) EXCEPT !.id = NoKey], [PlainAsset(i) EXCEPT !.resourceType = NoKey]}

\* the lists of n assets
RECURSIVE AssetListsOf(_)
AssetListsOf(n) ==
    IF n = 0 THEN {<<>>}
    ELSE {Append(l, a) : l \in AssetListsOf(n - 1), a \in AssetShapes(n)}

\* the lists of at most n assets
AssetLists(n) == UNION {AssetListsOf(i) : i \in 0..n}

RelationShapes ==
    [source_id : {AssetId(1), <<>>, None}, target_id : {<<"D1">>, <<>>},
     relation_type_id : {<<"R1">>}]

RelationLists == UNION {[1..n -> RelationShapes] : n \in 0..MaxRelations}

\* one asset with a domain, one relation, one vertex to drain
SmallFeed ==
    [legacy |-> 1, assets |-> <<PlainAsset(1)>>, assetsRaise |-> FALSE,
     relations |-> <<[source_id |-> AssetId(1), target_id |-> <<"D1">>,
                      relation_type_id |-> <<"R1">>]>>,
     relationsRaise |-> FALSE]

\* the script starts: client = CosmosGraphClient(...)
MainStart(f) ==
    /\ FetchIdle /\ ProjIdle /\ BuildIdle /\ CallerIdle
    /\ gremlin_client = FALSE /\ connection = FALSE /\ g = FALSE /\ opened = 0
    /\ vertices = Legacy(f.legacy) /\ edges = EmptyBag /\ nextAuto = 0
    /\ lastCall = NoCall /\ nOps = 0
    /\ mpc = "connect" /\ raised = "none" /\ feed = f
    /\ all_assets = <<>> /\ all_relations = <<>>
    /\ ai = 0 /\ ki = 0 /\ nested_vertex = <<>> /\ ri = 0 /\ log = <<>>

\* runs that differ in what there is to drain
InitDrain == \E n \in 0..MaxVertices : MainStart([SmallFeed EXCEPT !.legacy = n])

SpecDrain == InitDrain /\ [][NextMain]_vars

\* runs that differ in the assets fetched
InitMigrate ==
    \E assets \in AssetLists(MaxAssets), assetsRaise \in BOOLEAN :
        MainStart([SmallFeed EXCEPT !.assets = assets, !.assetsRaise = assetsRaise])

SpecMigrate == InitMigrate /\ [][NextMain]_vars

\* runs that differ in the relations fetched
InitRelations ==
    \E fetched \in RelationLists, relationsRaise \in BOOLEAN :
        MainStart([SmallFeed EXCEPT !.relations = fetched,
                                    !.relationsRaise = relationsRaise])

SpecRelations == InitRelations /\ [][NextMain]_vars

\* the calls of the drain loop, in order
IsDrainCall(e) == e.op \in {"count", "drop"}
DrainLog == SelectSeq(log, IsDrainCall)

IsDrop(e) == e.op = "drop"

\* the drain loop was entered and has been left
DrainEnded == mpc \notin {"connect", "count", "drop"} /\ raised # "ConnectionError"

\* every count and every delete of the drain loop executed
DrainSucceeded == \A i \in DOMAIN DrainLog : DrainLog[i].ok

(***************************************************************************)
(* C8: draining a store that holds K vertices with batch size N, every     *)
(* count and delete succeeding, issues exactly ceil(K/N) deletes, each     *)
(* preceded by a count that observed a non-zero value, and ends with one   *)
(* count that observed zero; the store is then empty.                      *)
(***************************************************************************)
C8_DrainBatches ==
    (DrainEnded /\ DrainSucceeded)
        => /\ Len(SelectSeq(log, IsDrop)) = CeilDiv(feed.legacy, drop_limit)
           /\ Len(DrainLog) = 2 * CeilDiv(feed.legacy, drop_limit) + 1
           /\ \A i \in DOMAIN DrainLog :
                 IF i = Len(DrainLog)
                   THEN DrainLog[i].op = "count" /\ DrainLog[i].observed = 0
                   ELSE IF i % 2 = 1
                     THEN DrainLog[i].op = "count" /\ DrainLog[i].observed > 0
                     ELSE DrainLog[i].op = "drop"
           /\ (mpc = "fetch_assets" => vertices = EmptyBag /\ edges = EmptyBag)

\* a graph of more than one batch was drained with two deletes
C8_Witness ==
    /\ mpc = "fetch_assets"
    /\ DrainSucceeded
    /\ feed.legacy > drop_limit
    /\ Len(SelectSeq(log, IsDrop)) = 2
    /\ vertices = EmptyBag

\* the calls that write to the graph
WriteOps == {"create_vertex", "upsert_vertex", "create_edge"}

(***************************************************************************)
(* C22: in every run of the migration no vertex creation, edge creation or *)
(* upsert is issued before the drain loop has observed a vertex count of   *)
(* zero.                                                                   *)
(***************************************************************************)
C22_DrainBeforeWrites ==
    \A j \in DOMAIN log :
        log[j].op \in WriteOps
            => \E k \in 1..(j - 1) : log[k].op = "count" /\ log[k].observed = 0

\* a graph that held vertices was drained, and then the first asset was written
C22_Witness ==
    /\ feed.legacy > 0
    /\ \E j \in DOMAIN log :
          /\ log[j].op = "create_vertex"
          /\ \E k \in 1..(j - 1) : log[k].op = "drop" /\ log[k].ok

\* the last call the script made
LastEntry == log[Len(log)]

(***************************************************************************)
(* C23: for every asset and each nested kind present on it, the            *)
(* belongsTo_<kind> edge creation is issued only after the upsert of that  *)
(* nested vertex has returned a vertex, the edge's source id is the id of  *)
(* the vertex that upsert returned, and no belongsTo edge is issued for an *)
(* upsert that returned failure.                                           *)
(***************************************************************************)
C23_EdgeAfterUpsert ==
    /\ [](\A e \in DOMAIN log :
            (log[e].op = "create_edge" /\ log[e].kind # "")
                => /\ e > 1
                   /\ log[e - 1].op = "upsert_vertex"
                   /\ log[e - 1].asset = log[e].asset
                   /\ log[e - 1].kind = log[e].kind
                   /\ ~log[e - 1].none
                   /\ log[e].from = log[e - 1].id
                   /\ log[e].label = <<"belongsTo_" \o log[e].kind>>)
    /\ [](mpc = "edge" => /\ nested_vertex # <<>>
                          /\ LastEntry.op = "upsert_vertex" /\ ~LastEntry.none)
    /\ [][(mpc = "edge" /\ log' # log)
            => LastEntry'.from = nested_vertex[1].props[ID].v]_vars

\* the upsert of a type returned its vertex and the edge was issued from it
C23_Witness ==
    /\ Len(log) >= 2
    /\ LastEntry.op = "create_edge" /\ LastEntry.kind = "type"
    /\ LastEntry.from = <<"T1">>
    /\ log[Len(log) - 1].op = "upsert_vertex" /\ ~log[Len(log) - 1].none

\* the calls made for asset i and its nested object of a kind ("" for none)
CallsFor(op, i, kind) ==
    {j \in DOMAIN log : log[j].op = op /\ log[j].asset = i /\ log[j].kind = kind}

\* the asset holds every field the migration reads
Complete(asset) ==
    /\ asset.id # NoKey /\ asset.resourceType # NoKey /\ asset.createdOn # NoKey
    /\ \A k \in DOMAIN Kinds :
          asset[Kinds[k]].present
              => asset[Kinds[k]].id # NoKey /\ asset[Kinds[k]].resourceType # NoKey

\* the calls the migration is to make for asset i
AssetSteps(i) ==
    LET asset == all_assets[i]
    IN  /\ \E j \in DOMAIN log :
              /\ CallsFor("create_vertex", i, "") = {j}
              /\ log[j].label = asset.resourceType
              /\ \E n \in DOMAIN log[j].properties :
                    log[j].properties[n] = [key |-> ID, value |-> SV(asset.id)]
        /\ \A k \in DOMAIN Kinds :
              asset[Kinds[k]].present
                  => \E u \in DOMAIN log, e \in DOMAIN log :
                        /\ CallsFor("upsert_vertex", i, Kinds[k]) = {u}
                        /\ CallsFor("create_edge", i, Kinds[k]) = {e}
                        /\ u < e
                        /\ log[u].label = asset[Kinds[k]].resourceType
                        /\ log[e].from = asset[Kinds[k]].id
                        /\ log[e].to = asset.id
                        /\ log[e].label = <<"belongsTo_" \o Kinds[k]>>
                        /\ log[e].properties =
                              <<[key |-> <<"since">>, value |-> SV(asset.createdOn)]>>

(***************************************************************************)
(* C9: for every asset the asset fetch returned the migration issues       *)
(* exactly one vertex creation labelled with the asset's resourceType and  *)
(* carrying its id, and for each of domain, type and status present on it  *)
(* exactly one upsert labelled with the nested object's resourceType,      *)
(* followed by exactly one edge creation from the nested vertex's id to    *)
(* the asset's id labelled belongsTo_<kind> with since = createdOn.        *)
(***************************************************************************)
C9_AssetSteps ==
    mpc = "end"
        => \A i \in DOMAIN all_assets : Complete(all_assets[i]) => AssetSteps(i)

\* the same in the runs that no exception ended
AssetStepsUnlessRaised ==
    (mpc = "end" /\ raised = "none")
        => \A i \in DOMAIN all_assets : Complete(all_assets[i]) => AssetSteps(i)

(***************************************************************************)
(* The script run again against the same catalog and the graph the run     *)
(* before it left.                                                         *)
(***************************************************************************)
\* the number of times the script is run
MaxRuns == 2

\* python knowgraphcollibra.py, once more: the script's names are fresh, the
\* graph and the catalog are as they were left
Rerun ==
    /\ mpc = "end" /\ opened < MaxRuns
    /\ mpc' = "connect" /\ raised' = "none"
    /\ all_assets' = <<>> /\ all_relations' = <<>>
    /\ ai' = 0 /\ ki' = 0 /\ nested_vertex' = <<>> /\ ri' = 0 /\ log' = <<>>
    /\ UNCHANGED <<handleVars, storeVars, feed>>
    /\ UNCHANGED nonMainVars

\* what the runs meet: nothing or one vertex in the graph, one asset of any
\* shape or two assets of one domain, one relation
InitRerun ==
    \E n \in 0..1, assets \in AssetListsOf(1) \cup {<<PlainAsset(1), PlainAsset(2)>>} :
        MainStart([SmallFeed EXCEPT !.legacy = n, !.assets = assets])

NextRerun ==
    \/ NextMain
    \/ Rerun

SpecRerun == InitRerun /\ [][NextRerun]_vars

\* the last of the runs ended, with no exception and no statement failed
LastRunEndedClean ==
    mpc = "end" /\ opened = MaxRuns /\ raised = "none" /\ Failures = 0

\* the vertices of the graph that have the id, counted with their copies
CopiesOfVertex(id) ==
    LET S == {v \in BagToSet(vertices) : v.props[ID] = SV(id)}
    IN  BagCardinality([v \in S |-> vertices[v]])

(***************************************************************************)
(* C21 as stated: after the migration has run twice against an unchanged   *)
(* catalog, the graph holds two asset vertices for each asset and two      *)
(* copies of each belongsTo_<kind> and relatedTo edge.                     *)
(***************************************************************************)
C21_SecondRunDuplicates ==
    LastRunEndedClean
        => /\ \A i \in DOMAIN all_assets : CopiesOfVertex(all_assets[i].id) = 2
           /\ \A e \in BagToSet(edges) : edges[e] = 2

(***************************************************************************)
(* C21 amended: the drain loop of the second run empties the graph before  *)
(* anything is created, so after the second run the graph holds one asset  *)
(* vertex for each asset and one copy of each belongsTo_<kind> and         *)
(* relatedTo edge the run created, and nothing of the run before it.       *)
(***************************************************************************)
C21_SecondRunReplaces ==
    LastRunEndedClean
        => /\ \A i \in DOMAIN all_assets : CopiesOfVertex(all_assets[i].id) = 1
           /\ \A v \in BagToSet(vertices) : vertices[v] = 1
           /\ \A e \in BagToSet(edges) : edges[e] = 1
           /\ BagCardinality(edges)
                 = Cardinality({j \in DOMAIN log : log[j].op = "create_edge"
                                                       /\ ~log[j].none})
           /\ BagCardinality(vertices)
                 <= Cardinality({j \in DOMAIN log :
                                    log[j].op \in {"create_vertex", "upsert_vertex"}})
           /\ \A v \in BagToSet(vertices) : v.label # <<"Old">>

\* two assets of one domain were migrated twice
C21_Witness ==
    /\ LastRunEndedClean
    /\ Len(all_assets) = 2
    /\ BagCardinality(vertices) = 3
    /\ BagCardinality(edges) = 3
    /\ \E e \in BagToSet(edges) : e.label = <<"relatedTo">>

\* the asset loop was entered, and the only failures the run met are those of
\* a client call: no fetch raised and every asset has the id the prints read
OnlyCallFailures ==
    /\ ai >= 1
    /\ ~feed.relationsRaise
    /\ \A i \in DOMAIN all_assets : all_assets[i].id # NoKey

\* the script went through asset i: its vertex creation was issued
AssetProcessed(i) ==
    \E e \in DOMAIN log : log[e].op = "create_vertex" /\ log[e].asset = i

\* the script went through relation r: the loop reached it, and issued its
\* edge creation when the triple has both ids
RelationProcessed(r) ==
    /\ r \in DOMAIN all_relations
    /\ r <= ri
    /\ HasBothEnds(all_relations[r])
          => \E e \in DOMAIN log : log[e].op = "create_edge" /\ log[e].rel = r

(***************************************************************************)
(* C20: a failure while migrating one asset (a nested upsert that returns  *)
(* failure for a missing id or a store error, a vertex or edge creation    *)
(* that returns empty) does not abort the migration: every remaining asset *)
(* and every relation is still processed.                                  *)
(***************************************************************************)
C20_FailureDoesNotAbort ==
    (mpc = "end" /\ OnlyCallFailures)
        => /\ raised = "none"
           /\ \A i \in DOMAIN feed.assets : AssetProcessed(i)
           /\ \A r \in DOMAIN feed.relations : RelationProcessed(r)

\* the same for the failures that are not a nested upsert returning None
CreationFailureDoesNotAbort ==
    (/\ mpc = "end" /\ OnlyCallFailures
     /\ \A e \in DOMAIN log : log[e].op = "upsert_vertex" => ~log[e].none)
        => /\ raised = "none"
           /\ \A i \in DOMAIN feed.assets : AssetProcessed(i)
           /\ \A r \in DOMAIN feed.relations : RelationProcessed(r)

\* a run in which a vertex creation came back empty and the script went on
CreationFailureReached ==
    /\ mpc = "end" /\ raised = "none" /\ Len(all_assets) = 2
    /\ \E e \in DOMAIN log :
          log[e].op = "create_vertex" /\ log[e].asset = 1 /\ log[e].none
    /\ AssetProcessed(2)

\* the relatedTo edge creations, in order
IsRelatedTo(e) == e.op = "create_edge" /\ e.label = <<"relatedTo">>
RelatedTo == SelectSeq(log, IsRelatedTo)

\* the edge creation e is the one of the triple rel
EdgeOf(e, rel) ==
    /\ e.from = rel.source_id
    /\ e.to = rel.target_id
    /\ e.properties = <<[key |-> <<"relationTypeId">>,
                         value |-> SV(rel.relation_type_id)]>>

(***************************************************************************)
(* C10 as stated: for every relation triple the relation fetch returned    *)
(* the migration issues exactly one edge creation from source_id to        *)
(* target_id labelled relatedTo with relationTypeId = relation_type_id,    *)
(* and the number of relatedTo edges equals the number of relations.       *)
(***************************************************************************)
C10_OneEdgePerRelation ==
    mpc = "end"
        => /\ Len(RelatedTo) = Len(all_relations)
           /\ \A r \in DOMAIN all_relations :
                 r \in DOMAIN RelatedTo /\ EdgeOf(RelatedTo[r], all_relations[r])

\* the triple names a source and a target
BothIdsGiven(rel) ==
    /\ rel.source_id # None /\ rel.source_id # <<>>
    /\ rel.target_id # None /\ rel.target_id # <<>>

(***************************************************************************)
(* C10 as amended: for every returned relation triple whose source_id and  *)
(* target_id are both non-empty the migration issues exactly one relatedTo *)
(* edge creation from source_id to target_id with relationTypeId =         *)
(* relation_type_id, in the order fetched; a triple with an empty or null  *)
(* source_id or target_id is skipped, so the number of relatedTo edge      *)
(* creations equals the number of triples with both ids.                   *)
(***************************************************************************)
C10_OneEdgePerRelationWithBothIds ==
    mpc = "end"
        => LET kept == SelectSeq(all_relations, BothIdsGiven)
           IN  /\ Len(RelatedTo) = Len(kept)
               /\ \A r \in DOMAIN kept : EdgeOf(RelatedTo[r], kept[r])
               /\ \A r \in DOMAIN RelatedTo :
                     /\ RelatedTo[r].rel \in DOMAIN all_relations
                     /\ BothIdsGiven(all_relations[RelatedTo[r].rel])
                     /\ \A q \in DOMAIN RelatedTo : q < r => RelatedTo[q].rel < RelatedTo[r].rel

\* two relations were fetched, one without a target, and one edge was issued
C10_Witness ==
    /\ mpc = "end"
    /\ Len(all_relations) = 2
    /\ BothIdsGiven(all_relations[1])
    /\ all_relations[2].target_id = <<>>
    /\ Len(RelatedTo) = 1
    /\ EdgeOf(RelatedTo[1], all_relations[1])

(***************************************************************************)
(* get_all_collibra_relations: the projection of the raw relation records. *)
(* A raw record is a mapping; the value of a key it lacks is NoKey.  A     *)
(* nested object is [present, id]: whether the record holds the key at     *)
(* all, and the object's id (NoKey when the object has none).              *)
(***************************************************************************)
\* the longest list of raw records
MaxRaw == 2

NoObject == [present |-> FALSE, id |-> NoKey]

NestedObjects(ids) == {NoObject} \cup [present : {TRUE}, id : ids \cup {NoKey}]

RawRecords ==
    [id : {<<"r">>, NoKey},
     source : NestedObjects({<<"a">>, <<"b">>}),
     target : NestedObjects({<<"c">>}),
     type : NestedObjects({<<"t">>})]

RawLists(n) == UNION {[1..k -> RawRecords] : k \in 0..n}

\* rel[key]['id'] subscripts without KeyError
HasNestedId(obj) == obj.present /\ obj.id # NoKey

\* the four subscripts of one iteration: rel['id'], rel['source']['id'],
\* rel['target']['id'], rel['type']['id']
Subscriptable(rel) ==
    /\ rel.id # NoKey
    /\ HasNestedId(rel.source)
    /\ HasNestedId(rel.target)
    /\ HasNestedId(rel.type)

\* a projection that takes the source for both ends
TripleOfSource(rel) ==
    [source_id |-> rel.source.id, target_id |-> rel.source.id,
     relation_type_id |-> rel.type.id]

\* the dictionary appended for one record
Triple(rel) ==
    [source_id |-> rel.source.id, target_id |-> rel.target.id,
     relation_type_id |-> rel.type.id]

nonProjVars == <<fetchVars, buildVars, clientVars, callerVars, mainVars>>

\* relations = get_asset_relations(asset_id); asset_relationships = []
InitProject ==
    /\ relations \in RawLists(MaxRaw)
    /\ rel_i = 0 /\ asset_relationships = <<>> /\ ppc = "loop"
    /\ FetchIdle /\ BuildIdle /\ ClientIdle /\ CallerIdle /\ MainIdle

\* one iteration of the for loop whose subscripts all succeed
ProjectRecord ==
    /\ ppc = "loop" /\ rel_i < Len(relations)
    /\ Subscriptable(relations[rel_i + 1])
    /\ asset_relationships' = Append(asset_relationships, Triple(relations[rel_i + 1]))
    /\ rel_i' = rel_i + 1
    /\ UNCHANGED <<relations, ppc>>
    /\ UNCHANGED nonProjVars

\* an iteration one of whose subscripts raises KeyError: nothing catches it
ProjectRaise ==
    /\ ppc = "loop" /\ rel_i < Len(relations)
    /\ ~Subscriptable(relations[rel_i + 1])
    /\ ppc' = "raised"
    /\ UNCHANGED <<relations, rel_i, asset_relationships>>
    /\ UNCHANGED nonProjVars

\* the loop is over (or 'if relations:' skipped it): return asset_relationships
ProjectReturn ==
    /\ ppc = "loop" /\ rel_i = Len(relations)
    /\ ppc' = "returned"
    /\ UNCHANGED <<relations, rel_i, asset_relationships>>
    /\ UNCHANGED nonProjVars

NextProject ==
    \/ ProjectRecord
    \/ ProjectRaise
    \/ ProjectReturn

SpecProject == InitProject /\ [][NextProject]_vars

\* the record the next iteration reads
CurrentRel == relations[rel_i + 1]

(***************************************************************************)
(* C15: the relation fetch returns one triple per raw record, in the order *)
(* fetched, with source_id = record.source.id, target_id =                 *)
(* record.target.id and relation_type_id = record.type.id, and each triple *)
(* holds exactly those three fields.  Stated for the triples built so far  *)
(* at every point of the loop, and for the returned list.                  *)
(***************************************************************************)
C15_OneTriplePerRecord ==
    /\ Len(asset_relationships) = rel_i
    /\ ppc = "returned" => rel_i = Len(relations)
    /\ \A k \in 1..Len(asset_relationships) :
          /\ DOMAIN asset_relationships[k] = {"source_id", "target_id", "relation_type_id"}
          /\ asset_relationships[k].source_id = relations[k].source.id
          /\ asset_relationships[k].target_id = relations[k].target.id
          /\ asset_relationships[k].relation_type_id = relations[k].type.id

C15_Witness ==
    /\ ppc = "returned" /\ Len(relations) = 2 /\ Len(asset_relationships) = 2
    /\ asset_relationships[1].source_id = <<"b">>
    /\ asset_relationships[2].source_id = <<"a">>
    /\ asset_relationships[1].target_id = <<"c">>

(***************************************************************************)
(* C16: a raw record that lacks source.id, target.id or type.id makes the  *)
(* relation fetch raise at that record instead of skipping it, and a       *)
(* record that has all three is never rejected for lacking another field.  *)
(***************************************************************************)
C16_OnlyNestedIdsRequired ==
    [][(ppc = "loop" /\ rel_i < Len(relations))
          => (ppc' = "raised"
                <=> ~(/\ HasNestedId(CurrentRel.source)
                      /\ HasNestedId(CurrentRel.target)
                      /\ HasNestedId(CurrentRel.type)))]_vars

\* the half of C16 that the code keeps: a record lacking a nested id raises
MissingNestedIdRaises ==
    [][(/\ ppc = "loop" /\ rel_i < Len(relations)
        /\ ~(/\ HasNestedId(CurrentRel.source)
             /\ HasNestedId(CurrentRel.target)
             /\ HasNestedId(CurrentRel.type)))
          => /\ ppc' = "raised"
             /\ asset_relationships' = asset_relationships]_vars

(***************************************************************************)
(* One run of the script on each of its paths: the connect raises or not,  *)
(* the store fails a statement of the drain or of the asset processing or  *)
(* not, a nested object lacks its id or not, either fetch raises or not.   *)
(* The script is one sequential process that keeps running, so a step that *)
(* can be taken is taken (weak fairness).                                  *)
(***************************************************************************)
\* no asset, an asset with a domain, an asset whose domain has no id, and an
\* asset without id
PathAssets ==
    {<<>>, <<PlainAsset(1)>>,
     <<[PlainAsset(1) EXCEPT !.domain = Nested(NoKey, <<"Domain">>)]>>,
     <<[PlainAsset(1) EXCEPT !.id = NoKey]>>}

InitPaths ==
    \E n \in 0..1, assets \in PathAssets, assetsRaise \in BOOLEAN,
       relationsRaise \in BOOLEAN :
        MainStart([SmallFeed EXCEPT !.legacy = n, !.assets = assets,
                                    !.assetsRaise = assetsRaise,
                                    !.relationsRaise = relationsRaise])

SpecPaths == InitPaths /\ [][NextMain]_vars /\ WF_vars(NextMain)

(***************************************************************************)
(* C31: on every path through the migration (normal completion, a connect  *)
(* that raises, an exception raised during the drain, the asset processing *)
(* or the relation processing) the client is closed before the run ends    *)
(* and is left disconnected: the run reaches its end, it reaches it only   *)
(* through the close of the finally clause, and at the end no handle is    *)
(* set.                                                                    *)
(***************************************************************************)
C31_ClosedOnEveryPath ==
    /\ <>(mpc = "end")
    /\ [](mpc = "end" => Disconnected)
    /\ [][(mpc # "end" /\ mpc' = "end") => (mpc = "finally" /\ Disconnected')]_vars

\* a run that connected and was aborted by a TypeError of the asset processing
\* has ended
C31_Witness ==
    /\ mpc = "end" /\ raised = "TypeError"
    /\ opened = 1 /\ Disconnected
    /\ log # <<>>

\* the runs the paths of C31 name, each at its end
EndedWith(exc) == mpc = "end" /\ raised = exc /\ Disconnected

(***************************************************************************)
(* C33: if a count statement of the drain loop fails (the client returns   *)
(* an empty result), the migration stops there: no asset or relation is    *)
(* fetched, no vertex or edge is created, and the client is closed; if a   *)
(* delete statement fails without removing anything, the loop issues       *)
(* another count and, the count finding the same vertices, another delete, *)
(* and nothing is created until a count observes zero.                     *)
(***************************************************************************)
C33_DrainFailures ==
    /\ [][(mpc = "count" /\ log' # log /\ LastEntry'.none)
            => (mpc' = "finally" /\ raised' = "IndexError")]_vars
    /\ [](raised = "IndexError"
            => /\ mpc \in {"finally", "end"}
               /\ all_assets = <<>> /\ all_relations = <<>>
               /\ \A j \in DOMAIN log : log[j].op \notin WriteOps
               /\ mpc = "end" => Disconnected)
    /\ [][raised = "IndexError"
            => UNCHANGED <<all_assets, all_relations, storeVars, log>>]_vars
    /\ [](\A j \in DOMAIN log :
            (log[j].op = "drop" /\ ~log[j].ok)
                => /\ j < Len(log) => log[j + 1].op = "count"
                   /\ (j + 1 < Len(log) /\ log[j + 1].ok)
                        => /\ log[j + 1].observed = log[j - 1].observed
                           /\ log[j + 2].op = "drop"
                   /\ \A k \in (j + 1)..Len(log) :
                         log[k].op \in WriteOps
                            => \E c \in (j + 1)..(k - 1) :
                                  log[c].op = "count" /\ log[c].observed = 0)

\* after one batch was deleted a count failed, and the run ended there with
\* the rest of the old vertices in the graph
C33_Witness ==
    /\ mpc = "end" /\ raised = "IndexError" /\ Disconnected
    /\ Len(log) = 3 /\ log[2].op = "drop" /\ log[2].ok
    /\ vertices # EmptyBag

\* a delete failed, the loop went on, and the migration created a vertex
DeleteFailureReached ==
    \E j \in DOMAIN log, k \in DOMAIN log :
        /\ log[j].op = "drop" /\ ~log[j].ok
        /\ k > j /\ log[k].op = "create_vertex"

====
